---------------------------- MODULE Spec2Model ----------------------------
(***************************************************************************)
(* A model of the GenreTourist server (src/unnamed/part_000): the chart    *)
(* route with its durable cache and the tiered chart acquisition, the      *)
(* headless-browser scrapers, and the access-token handling of the         *)
(* playlist routes.                                                        *)
(*                                                                         *)
(* Text is a sequence of one-character strings.  Time is counted in ticks  *)
(* of HoursPerTick hours.  A request runs as a sequence of steps, one per  *)
(* stretch of code between two awaits on something another request can     *)
(* observe or change.                                                      *)
(***************************************************************************)
EXTENDS Integers, Sequences, FiniteSets, TLC

(***************************************************************************)
(* Bounds of the model.                                                    *)
(***************************************************************************)
NumReqs == 2
MaxNow == 2
HoursPerTick == 12
\* albums in the body of a playlist request that runs beside another
ConcurrentAlbums == 1
\* tracks of a catalog album, rated names of an album page, popularity
MaxTracks == 4
MaxRated == 3
MaxPop == 1
\* albums in the body of a playlist request that runs alone
MaxAlbums == 34
\* rows of a table of an album page
MaxRows == 3
\* characters of a text given to formatGenreSlug or to norm
MaxLen == 4
MaxEntries == 3
MaxEls == 2
MaxOrderAlbums == 3

Reqs == 1..NumReqs

(***************************************************************************)
(* Program constants.                                                      *)
(***************************************************************************)
CACHE_TTL_HOURS == 24
\* const GENRES_CACHE_TTL_MS = 24 * 60 * 60 * 1000, in hours
GENRES_CACHE_TTL_HOURS == 24

(***************************************************************************)
(* Text helpers: what the JavaScript string methods used by the server do. *)
(***************************************************************************)
UpperLetters == <<"A","B","C","D","E","F","G","H","I","J","K","L","M",
                  "N","O","P","Q","R","S","T","U","V","W","X","Y","Z">>
LowerLetters == <<"a","b","c","d","e","f","g","h","i","j","k","l","m",
                  "n","o","p","q","r","s","t","u","v","w","x","y","z">>
Digits == {"0","1","2","3","4","5","6","7","8","9"}

Range(s) == {s[i] : i \in DOMAIN s}

\* String.prototype.toLowerCase on one character
LowerChar(c) ==
  IF \E i \in DOMAIN UpperLetters : UpperLetters[i] = c
  THEN LowerLetters[CHOOSE i \in DOMAIN UpperLetters : UpperLetters[i] = c]
  ELSE c

ToLowerCase(s) == [i \in DOMAIN s |-> LowerChar(s[i])]

\* the regular expression class \s, which is also what trim() removes; of
\* its characters the texts of the model have these three
IsSpace(c) == c \in {" ", "\t", "\n"}

RECURSIVE TrimStart(_)
TrimStart(s) ==
  IF s = <<>> THEN <<>>
  ELSE IF IsSpace(Head(s)) THEN TrimStart(Tail(s)) ELSE s

RECURSIVE TrimEnd(_)
TrimEnd(s) ==
  IF s = <<>> THEN <<>>
  ELSE IF IsSpace(s[Len(s)]) THEN TrimEnd(SubSeq(s, 1, Len(s) - 1)) ELSE s

\* String.prototype.trim
Trim(s) == TrimEnd(TrimStart(s))

\* a faulty replacement: a hyphen for each white space character
SpacesToHyphenEach(s) == [i \in DOMAIN s |-> IF IsSpace(s[i]) THEN "-" ELSE s[i]]

\* .replace(/\s+/g, '-')
RECURSIVE SpacesToHyphen(_)
SpacesToHyphen(s) ==
  IF s = <<>> THEN <<>>
  ELSE IF IsSpace(Head(s)) THEN <<"-">> \o SpacesToHyphen(TrimStart(s))
  ELSE <<Head(s)>> \o SpacesToHyphen(Tail(s))

IsSlugChar(c) == c \in Range(LowerLetters) \cup Digits \cup {"-"}

\* .replace(/[^a-z0-9-]/g, '')
StripNonSlug(s) == SelectSeq(s, IsSlugChar)

\* a faulty slug: the characters that are not allowed become spaces
formatGenreSlugBlanks(genre) ==
  LET t == SpacesToHyphen(Trim(ToLowerCase(genre)))
  IN [i \in DOMAIN t |-> IF IsSlugChar(t[i]) THEN t[i] ELSE " "]

formatGenreSlug(genre) == StripNonSlug(SpacesToHyphen(Trim(ToLowerCase(genre))))

\* const genreKey = rawGenre.toLowerCase().trim()
GenreKeyOf(rawGenre) == Trim(ToLowerCase(rawGenre))

(***************************************************************************)
(* Values the environment supplies.                                        *)
(***************************************************************************)
\* the :genre path parameter of a chart request
RawGenres == { <<"S", " ", "P">>, <<"s", "-", "p">>, <<" ">> }
\* those among them that share one cache key, and the blank one
OneKeyGenres == { <<"S", " ", "P">>, <<" ">> }

Entry(k, ar, al) == [rank |-> k, artist |-> ar, album |-> al]
ListA == << Entry(1, "a1", "x1") >>
ListB == << Entry(1, "a2", "x2"), Entry(2, "a3", "x3") >>
\* what an extraction over a fetched chart page can yield
ScrapedLists == { <<>>, ListA, ListB }

\* the three functions that drive a headless browser
ScrapeFns == {"playwright", "albumTracks", "genres"}
\* arguments of scrapeAotyAlbumTracks: undefined, the empty string, a value
\* that is no string, and a path
AlbumPaths == {"undefined", "", "nonstring", "path"}

Tokens == {"tA", "tB"}
NoToken == "null"


TrackNameLists == { <<>>, <<"t1", "t2">> }
GenreLists == { <<>>, <<"rock">>, <<"rock", "jazz">> }

(***************************************************************************)
(* State.                                                                  *)
(***************************************************************************)
VARIABLES
  now,            \* the clock, in ticks
  cache,          \* table rym_charts_cache: its rows, in insertion order
  zenKey,         \* whether process.env.ZENROWS_API_KEY is set
  pc,             \* where each chart request stands
  rawGenre,       \* chart request: const rawGenre
  cachedData,     \* chart request: the lookup's data ({} is null)
  cacheError,     \* chart request: the lookup's error code
  t1,             \* getChartData: const result (tier 1's outcome)
  zenRows,        \* getChartData: const zenRows (tier 2's outcome)
  gcd,            \* chart request: the outcome of getChartData
  resp,           \* chart request: the response sent
  gcdCalls,       \* per request: invocations of getChartData
  t1Calls,        \* per request: invocations of scrapeAotyWithPlaywright
  t2Calls,        \* per request: invocations of scrapeAotyWithZenRows
  httpCalls,      \* per request: HTTP GETs issued to the proxy service
  spc,            \* where each scraper invocation stands
  sfn,            \* which scraper function the invocation runs
  albumPath,      \* scrapeAotyAlbumTracks: its argument albumPath
  response,       \* scrapeAotyWithPlaywright: const response ("ok", "404")
  browser,        \* the invocation's local variable browser
  sout,           \* the invocation's pending or final outcome
  openBrowsers,   \* browsers launched and not yet closed, process-wide
  apiToken,       \* the access token held by the shared spotifyApi object
  spotifyAccessToken, \* let spotifyAccessToken
  gpc,            \* where each /api/generate-playlist request stands
  reqToken,       \* playlist request: authHeader.slice(7)
  nAlbums,        \* playlist request: albums.length
  gi,             \* playlist request: index of the album being processed
  gotItems,       \* getAllAlbumTracks: all.length > 0
  listToken,      \* getAllAlbumTracks: const token
  addToken,       \* playlist request: const accessToken
  trackCount,     \* playlist request: trackUris.length
  uriAlbum,       \* playlist request: the album each entry of trackUris is of
  sent,           \* playlist request: the add loop's index i
  tracksAdded,    \* playlist request: let tracksAdded
  authError,      \* playlist request: whether authError is set
  inflight,       \* playlist request: the catalog call awaited, its token
  gresp,          \* playlist request: status of the response sent
  gerror,         \* playlist request: the error field of the response sent
  authFailed,     \* playlist request: a catalog call was answered 401/403
  createCalls,    \* playlist request: invocations of createPlaylist
  addCalls,       \* playlist request: POSTs of a chunk of track URIs
  addChunks,      \* playlist request: the chunks posted, in call order
  selPc,          \* one album's track selection: where it stands
  selItems,       \* selection: const items (the catalog's track list)
  selUrl,         \* selection: whether item.albumUrl is set
  aotyOrder,      \* selection: const aotyOrder (rated names, best first)
  selOut,         \* selection: how the getTracks call ended
  selFirst,       \* selection: urisToAdd before the padding loop
  urisToAdd,      \* selection: let urisToAdd
  genresCache,    \* let genresCache ({} is null, else a one-element set)
  genresCacheTime, \* let genresCacheTime, in ticks
  gnpc,           \* where each /api/genres request stands
  gnresp,         \* genres request: the response sent
  fpc,            \* which function was last applied on its own
  pageTables,     \* album page: its tables, each a list of rows of td texts
  trackNames,     \* album page: const trackNames (the extraction's result)
  slugIn,         \* formatGenreSlug: its argument genre
  slugOut,        \* formatGenreSlug(genre)
  slugTwice,      \* formatGenreSlug(formatGenreSlug(genre))
  normIn,         \* norm: its argument s
  normOut,        \* norm(s)
  normTwice,      \* norm(norm(s))
  matchName,      \* findMatch: its argument aotyName
  matchMap,       \* findMatch: its argument spotifyNormToUri
  matchOut,       \* findMatch(aotyName, spotifyNormToUri)
  chartPage,      \* chart page: its title elements and album links
  pwAlbums,       \* chart page: the albums of tier 1's page.evaluate
  zrAlbums        \* chart page: the albums tier 2 parses from the html

chartVars == <<cache, zenKey, pc, rawGenre, cachedData, cacheError, t1,
               zenRows, gcd, resp, gcdCalls, t1Calls, t2Calls, httpCalls>>
scrapeVars == <<spc, sfn, albumPath, response, browser, sout, openBrowsers>>
tokenVars == <<apiToken, spotifyAccessToken>>
genVars == <<gpc, reqToken, nAlbums, gi, gotItems, listToken, addToken,
             trackCount, sent, tracksAdded, authError, inflight, gresp,
             gerror, authFailed, createCalls, addCalls, addChunks,
             uriAlbum>>
selVars == <<selPc, selItems, selUrl, aotyOrder, selOut, selFirst, urisToAdd>>
genresVars == <<genresCache, genresCacheTime, gnpc, gnresp>>
matchVars == <<matchName, matchMap, matchOut>>
parseVars == <<chartPage, pwAlbums, zrAlbums>>
pureVars == <<fpc, pageTables, trackNames, slugIn, slugOut, slugTwice, normIn,
              normOut, normTwice, matchVars, parseVars>>
vars == <<now, chartVars, scrapeVars, tokenVars, genVars, selVars, genresVars,
          pureVars>>
\* everything a step of a scraper leaves alone
notScrape == <<now, chartVars, tokenVars, genVars, selVars, genresVars,
               pureVars>>
\* everything a step of the chart route leaves alone, besides the chart's
\* and the scrapers' variables
notChart == <<tokenVars, genVars, selVars, genresVars, pureVars>>
\* everything a step of the playlist routes leaves alone, besides the
\* tokens', the playlist requests' and the scrapers' variables
notGen == <<now, chartVars, selVars, genresVars, pureVars>>

(***************************************************************************)
(* Outcomes of a call: nothing yet, a returned value, or an exception.     *)
(* list is the returned array; for scrapeAotyWithPlaywright and            *)
(* scrapeAotyWithZenRows it is the field albums of the returned object.    *)
(***************************************************************************)
NoOutcome == [st |-> "none", list |-> <<>>, success |-> FALSE, notFound |-> FALSE]
Thrown == [st |-> "threw", list |-> <<>>, success |-> FALSE, notFound |-> FALSE]
Returned(l, s, nf) == [st |-> "ret", list |-> l, success |-> s, notFound |-> nf]

NoResp == [status |-> 0, genre |-> <<>>, data |-> <<>>, cached |-> FALSE, at |-> 0]

(***************************************************************************)
(* The scrapers: scrapeAotyWithPlaywright, scrapeAotyAlbumTracks and       *)
(* fetchAotyGenres.  Each is try { launch; newPage; goto; evaluate }       *)
(* [catch] finally { close }.                                              *)
(***************************************************************************)
\* what an in-page extraction can yield for each function
PageResults(fn) ==
  IF fn = "playwright" THEN ScrapedLists
  ELSE IF fn = "albumTracks" THEN TrackNameLists ELSE GenreLists

\* an exception inside the try block: scrapeAotyWithPlaywright has no catch,
\* the other two catch it and return []
Raise(fn) ==
  IF fn = "playwright" THEN Thrown ELSE Returned(<<>>, FALSE, FALSE)

\* the value returned after a completed extraction
Extracted(fn, l) ==
  IF fn = "playwright" THEN Returned(l, Len(l) > 0, Len(l) = 0)
  ELSE Returned(l, FALSE, FALSE)

\* a faulty scrapeAotyAlbumTracks: it launches the browser whatever its
\* argument
NoAlbumPathNever(arg) == FALSE

\* !albumPath || typeof albumPath !== 'string'
NoAlbumPath(arg) == arg \in {"undefined", "", "nonstring"}

\* the call itself, up to the first await
StartScrape(p, fn, arg) ==
  /\ sfn' = [sfn EXCEPT ![p] = fn]
  /\ browser' = [browser EXCEPT ![p] = "undef"]
  /\ albumPath' = [albumPath EXCEPT ![p] =
                     IF fn = "albumTracks" THEN arg ELSE "undefined"]
  /\ response' = [response EXCEPT ![p] = "none"]
  /\ IF fn = "albumTracks" /\ NoAlbumPath(arg)
     THEN /\ spc' = [spc EXCEPT ![p] = "ret"]
          /\ sout' = [sout EXCEPT ![p] = Returned(<<>>, FALSE, FALSE)]
     ELSE /\ spc' = [spc EXCEPT ![p] = "launch"]
          /\ sout' = [sout EXCEPT ![p] = NoOutcome]
  /\ UNCHANGED openBrowsers

\* browser = await chromium.launch(...)
Launch(p, ok) ==
  /\ spc[p] = "launch"
  /\ IF ok
     THEN /\ browser' = [browser EXCEPT ![p] = "open"]
          /\ openBrowsers' = openBrowsers + 1
          /\ spc' = [spc EXCEPT ![p] = "goto"]
          /\ UNCHANGED sout
     ELSE /\ sout' = [sout EXCEPT ![p] = Raise(sfn[p])]
          /\ spc' = [spc EXCEPT ![p] = "finally"]
          /\ UNCHANGED <<browser, openBrowsers>>
  /\ UNCHANGED <<sfn, albumPath, response, notScrape>>

\* a faulty navigation: the answer's status is not looked at
GotoPast404(p, nav) ==
  /\ spc[p] = "goto"
  /\ response' = [response EXCEPT ![p] =
                    IF nav = "throw" \/ sfn[p] # "playwright" THEN @ ELSE nav]
  /\ IF nav = "throw"
     THEN /\ sout' = [sout EXCEPT ![p] = Raise(sfn[p])]
          /\ spc' = [spc EXCEPT ![p] = "finally"]
     ELSE /\ spc' = [spc EXCEPT ![p] = "evaluate"]
          /\ UNCHANGED sout
  /\ UNCHANGED <<sfn, albumPath, browser, openBrowsers, notScrape>>

\* browser.newPage() and page.goto(url, ...): the navigation answers with a
\* page, answers 404, or fails (timeout, network, newPage)
Goto(p, nav) ==
  /\ spc[p] = "goto"
  /\ response' = [response EXCEPT ![p] =
                    IF nav = "throw" \/ sfn[p] # "playwright" THEN @ ELSE nav]
  /\ IF nav = "throw"
     THEN /\ sout' = [sout EXCEPT ![p] = Raise(sfn[p])]
          /\ spc' = [spc EXCEPT ![p] = "finally"]
     ELSE IF nav = "404" /\ sfn[p] = "playwright"
     THEN /\ sout' = [sout EXCEPT ![p] = Returned(<<>>, FALSE, TRUE)]
          /\ spc' = [spc EXCEPT ![p] = "finally"]
     ELSE /\ spc' = [spc EXCEPT ![p] = "evaluate"]
          /\ UNCHANGED sout
  /\ UNCHANGED <<sfn, albumPath, browser, openBrowsers, notScrape>>

\* waitForSelector(...).catch(() => null), the settle delay, page.evaluate
Evaluate(p, throws, l) ==
  /\ spc[p] = "evaluate"
  /\ l \in PageResults(sfn[p])
  /\ sout' = [sout EXCEPT ![p] = IF throws THEN Raise(sfn[p])
                                  ELSE Extracted(sfn[p], l)]
  /\ spc' = [spc EXCEPT ![p] = "finally"]
  /\ UNCHANGED <<sfn, albumPath, response, browser, openBrowsers, notScrape>>

\* a faulty teardown: close() at the end of the try block instead of in
\* finally, so it is skipped when an exception is pending
FinallySkipsOnThrow(p) ==
  /\ spc[p] = "finally"
  /\ IF browser[p] = "open" /\ sout[p].st # "threw"
     THEN /\ browser' = [browser EXCEPT ![p] = "closed"]
          /\ openBrowsers' = openBrowsers - 1
     ELSE UNCHANGED <<browser, openBrowsers>>
  /\ spc' = [spc EXCEPT ![p] = "ret"]
  /\ UNCHANGED <<sfn, albumPath, response, sout, notScrape>>

\* finally { if (browser) await browser.close().catch(() => {}) }
Finally(p) ==
  /\ spc[p] = "finally"
  /\ IF browser[p] = "open"
     THEN /\ browser' = [browser EXCEPT ![p] = "closed"]
          /\ openBrowsers' = openBrowsers - 1
     ELSE UNCHANGED <<browser, openBrowsers>>
  /\ spc' = [spc EXCEPT ![p] = "ret"]
  /\ UNCHANGED <<sfn, albumPath, response, sout, notScrape>>

(***************************************************************************)
(* The durable store, table rym_charts_cache (genre text not null unique). *)
(* Columns id and created_at get defaults and are not read by the server.  *)
(***************************************************************************)
Row(key, l, t) == [genre |-> key, data |-> l, updated_at |-> t]

RowsOf(c, key) == {i \in DOMAIN c : c[i].genre = key}

\* .from('rym_charts_cache').select('*').eq('genre', key).single()
\* data is the row when exactly one matches; otherwise data is null and
\* error names the reason ("OTHER" is any failure of the request itself)
DbSelectSingle(c, key, fails) ==
  IF fails THEN [data |-> {}, error |-> "OTHER"]
  ELSE IF Cardinality(RowsOf(c, key)) = 1
  THEN [data |-> {c[i] : i \in RowsOf(c, key)}, error |-> "none"]
  ELSE [data |-> {}, error |-> "PGRST116"]

\* a faulty update: without the filter on genre
DbUpdateEveryRow(c, payload, key) == [i \in DOMAIN c |-> payload]

\* .update(chartPayload).eq('genre', key)
DbUpdate(c, payload, key) ==
  [i \in DOMAIN c |-> IF c[i].genre = key THEN payload ELSE c[i]]

\* .insert(chartPayload): the unique constraint on genre rejects a second
\* row for a key; the client returns the error, and the handler ignores it
DbInsert(c, payload) ==
  IF RowsOf(c, payload.genre) # {} THEN c ELSE Append(c, payload)

(***************************************************************************)
(* GET /api/chart/:genre                                                   *)
(***************************************************************************)
\* a faulty freshness test: <= in place of <
IsFreshOffByOne(row, t) == (t - row.updated_at) * HoursPerTick <= CACHE_TTL_HOURS

\* hoursSinceUpdate < 24, at time t
IsFresh(row, t) == (t - row.updated_at) * HoursPerTick < CACHE_TTL_HOURS

\* if (cachedData && cachedData.data) { ... if (hoursSinceUpdate < 24) ... }
IsCacheHit(data, t) == \E row \in data : IsFresh(row, t)

\* a faulty tier test: never satisfied, so tier 1's list is never returned
TierNeverSucceeds(out) == FALSE

\* getChartData: if (result.success && result.albums.length > 0)
TierSucceeded(out) == out.st = "ret" /\ out.success /\ Len(out.list) > 0

\* the request arrives; the handler validates, looks the key up and either
\* answers from the cache or calls getChartData, which calls tier 1
\* a faulty handler: a lookup error other than PGRST116 ends the request in
\* the handler's catch
ChartRequestFailsOnError(r, g, lookupFails) ==
  /\ pc[r] = "idle"
  /\ LET raw == Trim(g)
         key == GenreKeyOf(raw)
         res == DbSelectSingle(cache, key, lookupFails)
     IN IF raw = <<>>
        THEN /\ resp' = [resp EXCEPT ![r] = [NoResp EXCEPT !.status = 400]]
             /\ pc' = [pc EXCEPT ![r] = "done"]
             /\ UNCHANGED <<rawGenre, cachedData, cacheError, gcdCalls,
                            t1Calls, scrapeVars>>
        ELSE IF res.error = "OTHER"
        THEN /\ resp' = [resp EXCEPT ![r] = [NoResp EXCEPT !.status = 500]]
             /\ cacheError' = [cacheError EXCEPT ![r] = res.error]
             /\ pc' = [pc EXCEPT ![r] = "done"]
             /\ UNCHANGED <<rawGenre, cachedData, gcdCalls, t1Calls,
                            scrapeVars>>
        ELSE IF IsCacheHit(res.data, now)
        THEN /\ resp' = [resp EXCEPT ![r] =
                   [status |-> 200, genre |-> key,
                    data |-> (CHOOSE row \in res.data : TRUE).data,
                    cached |-> TRUE,
                    at |-> (CHOOSE row \in res.data : TRUE).updated_at]]
             /\ pc' = [pc EXCEPT ![r] = "done"]
             /\ UNCHANGED <<rawGenre, cachedData, cacheError, gcdCalls,
                            t1Calls, scrapeVars>>
        ELSE /\ rawGenre' = [rawGenre EXCEPT ![r] = raw]
             /\ cachedData' = [cachedData EXCEPT ![r] = res.data]
             /\ cacheError' = [cacheError EXCEPT ![r] = res.error]
             /\ gcdCalls' = [gcdCalls EXCEPT ![r] = @ + 1]
             /\ t1Calls' = [t1Calls EXCEPT ![r] = @ + 1]
             /\ StartScrape(r, "playwright", formatGenreSlug(raw))
             /\ pc' = [pc EXCEPT ![r] = "tier1"]
             /\ UNCHANGED resp
  /\ UNCHANGED <<now, cache, zenKey, t1, zenRows, gcd, t2Calls, httpCalls>>
  /\ UNCHANGED notChart

ChartRequest(r, g, lookupFails) ==
  /\ pc[r] = "idle"
  /\ LET raw == Trim(g)
         key == GenreKeyOf(raw)
         res == DbSelectSingle(cache, key, lookupFails)
     IN IF raw = <<>>
        THEN /\ resp' = [resp EXCEPT ![r] = [NoResp EXCEPT !.status = 400]]
             /\ pc' = [pc EXCEPT ![r] = "done"]
             /\ UNCHANGED <<rawGenre, cachedData, cacheError, gcdCalls,
                            t1Calls, scrapeVars>>
        ELSE IF IsCacheHit(res.data, now)
        THEN /\ resp' = [resp EXCEPT ![r] =
                   [status |-> 200, genre |-> key,
                    data |-> (CHOOSE row \in res.data : TRUE).data,
                    cached |-> TRUE,
                    at |-> (CHOOSE row \in res.data : TRUE).updated_at]]
             /\ pc' = [pc EXCEPT ![r] = "done"]
             /\ UNCHANGED <<rawGenre, cachedData, cacheError, gcdCalls,
                            t1Calls, scrapeVars>>
        ELSE /\ rawGenre' = [rawGenre EXCEPT ![r] = raw]
             /\ cachedData' = [cachedData EXCEPT ![r] = res.data]
             /\ cacheError' = [cacheError EXCEPT ![r] = res.error]
             /\ gcdCalls' = [gcdCalls EXCEPT ![r] = @ + 1]
             /\ t1Calls' = [t1Calls EXCEPT ![r] = @ + 1]
             /\ StartScrape(r, "playwright", formatGenreSlug(raw))
             /\ pc' = [pc EXCEPT ![r] = "tier1"]
             /\ UNCHANGED resp
  /\ UNCHANGED <<now, cache, zenKey, t1, zenRows, gcd, t2Calls, httpCalls>>
  /\ UNCHANGED notChart

\* a faulty tier 2: the GET is issued whether the API key is set or not
ZenRowsNeverSkips == FALSE

\* scrapeAotyWithZenRows up to its HTTP GET: without the API key it returns
\* at once
ZenRowsSkips == ~zenKey

\* a faulty tier 2: the transport error is not caught
ZenRowsNoCatch(httpThrows, l) ==
  IF httpThrows THEN Thrown ELSE Returned(l, Len(l) > 0, FALSE)

\* scrapeAotyWithZenRows after the GET: a transport error is caught
ZenRowsResult(httpThrows, l) ==
  IF httpThrows THEN Returned(<<>>, FALSE, FALSE)
  ELSE Returned(l, Len(l) > 0, FALSE)

\* a faulty return of tier 2's list: only its first entry
AfterTier2Truncates(out) ==
  IF out.st = "threw" THEN Thrown
  ELSE IF out.st = "ret" /\ out.success /\ Len(out.list) > 0
  THEN Returned(SubSeq(out.list, 1, 1), TRUE, FALSE)
  ELSE Returned(<<>>, FALSE, FALSE)

\* getChartData after tier 2 returned: return its albums or []
AfterTier2(out) ==
  IF out.st = "threw" THEN Thrown
  ELSE IF TierSucceeded(out) THEN Returned(out.list, TRUE, FALSE)
  ELSE Returned(<<>>, FALSE, FALSE)

\* getChartData resumes with tier 1's outcome: return its albums, or go on
\* to tier 2
GcdAfterTier1(r) ==
  /\ pc[r] = "tier1"
  /\ spc[r] = "ret"
  /\ t1' = [t1 EXCEPT ![r] = sout[r]]
  /\ spc' = [spc EXCEPT ![r] = "none"]
  /\ IF TierSucceeded(sout[r])
     THEN /\ gcd' = [gcd EXCEPT ![r] = Returned(sout[r].list, TRUE, FALSE)]
          /\ pc' = [pc EXCEPT ![r] = "gotdata"]
          /\ UNCHANGED <<zenRows, t2Calls, httpCalls>>
     ELSE /\ t2Calls' = [t2Calls EXCEPT ![r] = @ + 1]
          /\ IF ZenRowsSkips
             THEN /\ zenRows' = [zenRows EXCEPT ![r] = Returned(<<>>, FALSE, FALSE)]
                  /\ gcd' = [gcd EXCEPT ![r] = AfterTier2(Returned(<<>>, FALSE, FALSE))]
                  /\ pc' = [pc EXCEPT ![r] = "gotdata"]
                  /\ UNCHANGED httpCalls
             ELSE /\ httpCalls' = [httpCalls EXCEPT ![r] = @ + 1]
                  /\ pc' = [pc EXCEPT ![r] = "zenhttp"]
                  /\ UNCHANGED <<zenRows, gcd>>
  /\ browser' = [browser EXCEPT ![r] = "undef"]
  /\ sout' = [sout EXCEPT ![r] = NoOutcome]
  /\ UNCHANGED <<now, cache, zenKey, rawGenre, cachedData, cacheError, resp,
                 gcdCalls, t1Calls, sfn, albumPath, response,
                 openBrowsers>>
  /\ UNCHANGED notChart

\* a faulty tier 2: after a transport error the GET is issued again
ZenHttpRetries(r, httpThrows, l) ==
  /\ pc[r] = "zenhttp"
  /\ IF httpThrows
     THEN /\ httpCalls' = [httpCalls EXCEPT ![r] = @ + 1]
          /\ UNCHANGED <<zenRows, gcd, pc>>
     ELSE /\ zenRows' = [zenRows EXCEPT ![r] = ZenRowsResult(FALSE, l)]
          /\ gcd' = [gcd EXCEPT ![r] = AfterTier2(ZenRowsResult(FALSE, l))]
          /\ pc' = [pc EXCEPT ![r] = "gotdata"]
          /\ UNCHANGED httpCalls
  /\ UNCHANGED <<now, cache, zenKey, rawGenre, cachedData, cacheError, t1,
                 resp, gcdCalls, t1Calls, t2Calls, scrapeVars>>
  /\ UNCHANGED notChart

\* the proxy answers (or the GET fails); scrapeAotyWithZenRows parses and
\* returns, and getChartData returns
ZenHttp(r, httpThrows, l) ==
  /\ pc[r] = "zenhttp"
  /\ zenRows' = [zenRows EXCEPT ![r] = ZenRowsResult(httpThrows, l)]
  /\ gcd' = [gcd EXCEPT ![r] = AfterTier2(ZenRowsResult(httpThrows, l))]
  /\ pc' = [pc EXCEPT ![r] = "gotdata"]
  /\ UNCHANGED <<now, cache, zenKey, rawGenre, cachedData, cacheError, t1,
                 resp, gcdCalls, t1Calls, t2Calls, httpCalls, scrapeVars>>
  /\ UNCHANGED notChart

\* a faulty write path: on an empty list the row the lookup returned gets a
\* new updated_at
CacheAfterDataTouches(c, cached, albums, key, t) ==
  IF Len(albums) = 0
  THEN IF cached # {}
       THEN DbUpdate(c, Row(key, (CHOOSE row \in cached : TRUE).data, t), key)
       ELSE c
  ELSE IF cached # {} THEN DbUpdate(c, Row(key, albums, t), key)
  ELSE DbInsert(c, Row(key, albums, t))

\* what the handler leaves in the table after getChartData returned albums:
\* nothing new on an empty list; else update if the lookup had returned a
\* row, insert if it had not
CacheAfterData(c, cached, albums, key, t) ==
  IF Len(albums) = 0 THEN c
  ELSE IF cached # {} THEN DbUpdate(c, Row(key, albums, t), key)
  ELSE DbInsert(c, Row(key, albums, t))

\* the body of the response after getChartData returned albums
RespAfterData(albums, key, t) ==
  IF Len(albums) = 0
  THEN [NoResp EXCEPT !.status = 404, !.genre = key]
  ELSE [status |-> 200, genre |-> key, data |-> albums, cached |-> FALSE,
        at |-> t]

\* the handler resumes with getChartData's outcome: 404, or write the cache
\* and answer; an exception would end in the handler's catch (500)
ChartAfterData(r) ==
  /\ pc[r] = "gotdata"
  /\ LET key == GenreKeyOf(rawGenre[r])
     IN IF gcd[r].st = "threw"
        THEN /\ resp' = [resp EXCEPT ![r] = [NoResp EXCEPT !.status = 500]]
             /\ UNCHANGED cache
        ELSE /\ cache' = CacheAfterData(cache, cachedData[r], gcd[r].list,
                                        key, now)
             /\ resp' = [resp EXCEPT ![r] = RespAfterData(gcd[r].list, key, now)]
  /\ pc' = [pc EXCEPT ![r] = "done"]
  /\ rawGenre' = [rawGenre EXCEPT ![r] = <<>>]
  /\ cachedData' = [cachedData EXCEPT ![r] = {}]
  /\ cacheError' = [cacheError EXCEPT ![r] = "none"]
  /\ t1' = [t1 EXCEPT ![r] = NoOutcome]
  /\ zenRows' = [zenRows EXCEPT ![r] = NoOutcome]
  /\ gcd' = [gcd EXCEPT ![r] = NoOutcome]
  /\ response' = [response EXCEPT ![r] = "none"]
  /\ UNCHANGED <<now, zenKey, gcdCalls, t1Calls, t2Calls, httpCalls,
                 spc, sfn, albumPath, browser, sout, openBrowsers>>
  /\ UNCHANGED notChart

\* the connection ends; the slot serves the next request
ChartFinish(r) ==
  /\ pc[r] = "done"
  /\ pc' = [pc EXCEPT ![r] = "idle"]
  /\ resp' = [resp EXCEPT ![r] = NoResp]
  /\ gcdCalls' = [gcdCalls EXCEPT ![r] = 0]
  /\ t1Calls' = [t1Calls EXCEPT ![r] = 0]
  /\ t2Calls' = [t2Calls EXCEPT ![r] = 0]
  /\ httpCalls' = [httpCalls EXCEPT ![r] = 0]
  /\ UNCHANGED <<now, cache, zenKey, rawGenre, cachedData, cacheError, t1,
                 zenRows, gcd, scrapeVars>>
  /\ UNCHANGED notChart

\* time passes
Tick ==
  /\ now < MaxNow
  /\ now' = now + 1
  /\ UNCHANGED <<chartVars, scrapeVars, tokenVars, genVars, selVars, genresVars,
                 pureVars>>

(***************************************************************************)
(* The access token.  spotifyApi is one object shared by every request;    *)
(* each library call reads its token when the call is made.                *)
(***************************************************************************)
TRACKS_PER_ALBUM == 3
ADD_TRACKS_CHUNK == 100

Call(kind, tok) == [kind |-> kind, token |-> tok]
NoCall == Call("none", NoToken)

Min(a, b) == IF a < b THEN a ELSE b

\* the albums array of a request's body with n albums, each album given by
\* a number: different albums, but for the longest body, which names one
\* album n times
BodyAlbums(n) == [i \in 1..n |-> IF n >= MaxAlbums THEN 1 ELSE i]

\* const item of the loop over albums
ItemOf(r) == BodyAlbums(nAlbums[r])[gi[r]]

\* a faulty trackUris: the album's uris are put in front
Unshifted(uris, k, item) == [j \in 1..k |-> item] \o uris

\* for (const uri of urisToAdd) trackUris.push(uri), for k uris of an album
Pushed(uris, k, item) == uris \o [j \in 1..k |-> item]

\* a loop over albums that a recorded 401/403 ends at once, and that goes on
\* to createPlaylist whatever the number of identifiers
NextAlbumStopsOnAuth(r, count, auth) ==
  /\ trackCount' = [trackCount EXCEPT ![r] = count]
  /\ uriAlbum' = [uriAlbum EXCEPT ![r] = Pushed(@, count - Len(@), ItemOf(r))]
  /\ authError' = [authError EXCEPT ![r] = auth]
  /\ gotItems' = [gotItems EXCEPT ![r] = FALSE]
  /\ IF gi[r] < nAlbums[r] /\ ~auth
     THEN /\ gi' = [gi EXCEPT ![r] = @ + 1]
          /\ inflight' = [inflight EXCEPT ![r] = Call("search", apiToken)]
          /\ gpc' = [gpc EXCEPT ![r] = "search"]
          /\ UNCHANGED <<gresp, gerror, createCalls>>
     ELSE IF auth
     THEN /\ gresp' = [gresp EXCEPT ![r] = 401]
          /\ gerror' = [gerror EXCEPT ![r] = "Token expired or invalid"]
          /\ inflight' = [inflight EXCEPT ![r] = NoCall]
          /\ gpc' = [gpc EXCEPT ![r] = "done"]
          /\ UNCHANGED <<gi, createCalls>>
     ELSE /\ inflight' = [inflight EXCEPT ![r] = Call("create", apiToken)]
          /\ createCalls' = [createCalls EXCEPT ![r] = @ + 1]
          /\ gpc' = [gpc EXCEPT ![r] = "create"]
          /\ UNCHANGED <<gi, gresp, gerror>>

\* the loop over albums moves on: the next album's searchAlbums, or after
\* the last album the 422/401 answer or createPlaylist; count is
\* trackUris.length and auth whether authError is set, both as of now
NextAlbum(r, count, auth) ==
  /\ trackCount' = [trackCount EXCEPT ![r] = count]
  /\ uriAlbum' = [uriAlbum EXCEPT ![r] = Pushed(@, count - Len(@), ItemOf(r))]
  /\ authError' = [authError EXCEPT ![r] = auth]
  /\ gotItems' = [gotItems EXCEPT ![r] = FALSE]
  /\ IF gi[r] < nAlbums[r]
     THEN /\ gi' = [gi EXCEPT ![r] = @ + 1]
          /\ inflight' = [inflight EXCEPT ![r] = Call("search", apiToken)]
          /\ gpc' = [gpc EXCEPT ![r] = "search"]
          /\ UNCHANGED <<gresp, gerror, createCalls>>
     ELSE IF count = 0
     THEN /\ gresp' = [gresp EXCEPT ![r] = IF auth THEN 401 ELSE 422]
          /\ gerror' = [gerror EXCEPT ![r] =
                          IF auth THEN "Token expired or invalid"
                          ELSE "No matching tracks found"]
          /\ inflight' = [inflight EXCEPT ![r] = NoCall]
          /\ gpc' = [gpc EXCEPT ![r] = "done"]
          /\ UNCHANGED <<gi, createCalls>>
     ELSE /\ inflight' = [inflight EXCEPT ![r] = Call("create", apiToken)]
          /\ createCalls' = [createCalls EXCEPT ![r] = @ + 1]
          /\ gpc' = [gpc EXCEPT ![r] = "create"]
          /\ UNCHANGED <<gi, gresp, gerror>>

\* POST /api/generate-playlist arrives: no bearer header ends in 401;
\* otherwise the token is set on spotifyApi, the body is checked, and the
\* first album's searchAlbums is made
GenRequest(r, hasAuth, tok, n) ==
  /\ gpc[r] = "idle"
  /\ IF ~hasAuth
     THEN /\ gresp' = [gresp EXCEPT ![r] = 401]
          /\ gerror' = [gerror EXCEPT ![r] = "Not authenticated"]
          /\ gpc' = [gpc EXCEPT ![r] = "done"]
          /\ UNCHANGED <<apiToken, reqToken, nAlbums, gi, inflight>>
     ELSE /\ apiToken' = tok
          /\ reqToken' = [reqToken EXCEPT ![r] = tok]
          /\ IF n = 0
             THEN /\ gresp' = [gresp EXCEPT ![r] = 400]
                  /\ gerror' = [gerror EXCEPT ![r] = "Request body"]
                  /\ gpc' = [gpc EXCEPT ![r] = "done"]
                  /\ UNCHANGED <<nAlbums, gi, inflight>>
             ELSE /\ nAlbums' = [nAlbums EXCEPT ![r] = n]
                  /\ gi' = [gi EXCEPT ![r] = 1]
                  /\ inflight' = [inflight EXCEPT ![r] = Call("search", tok)]
                  /\ gpc' = [gpc EXCEPT ![r] = "search"]
                  /\ UNCHANGED <<gresp, gerror>>
  /\ UNCHANGED <<spotifyAccessToken, gotItems, listToken, addToken,
                 trackCount, uriAlbum, sent, tracksAdded, authError, authFailed,
                 createCalls, addCalls, addChunks, scrapeVars, notGen>>

\* searchAlbums answers: an album, none, a 401/403, or another error; with
\* an album, getAllAlbumTracks reads the token and gets the first page
GenAfterSearch(r, out) ==
  /\ gpc[r] = "search"
  /\ IF out = "found"
     THEN /\ listToken' = [listToken EXCEPT ![r] = apiToken]
          /\ inflight' = [inflight EXCEPT ![r] = Call("tracks", apiToken)]
          /\ gpc' = [gpc EXCEPT ![r] = "list"]
          /\ UNCHANGED <<gi, gotItems, trackCount, uriAlbum, authError, gresp, gerror,
                         createCalls>>
     ELSE /\ NextAlbum(r, trackCount[r], authError[r] \/ out = "auth")
          /\ UNCHANGED listToken
  /\ authFailed' = [authFailed EXCEPT ![r] = @ \/ out = "auth"]
  /\ UNCHANGED <<tokenVars, reqToken, nAlbums, addToken, sent, tracksAdded,
                 addCalls, addChunks, scrapeVars, notGen>>

\* a page of the track listing answers: a 401/403 or a transport error is
\* thrown to the loop's catch; a page with a next link is followed with the
\* same token; otherwise the listing ends, and with tracks the handler goes
\* on to scrapeAotyAlbumTracks (albumUrl) or to getTopTrackUrisByPopularity
GenAfterList(r, out, hasUrl) ==
  /\ gpc[r] = "list"
  /\ IF out \in {"auth", "error"}
     THEN /\ NextAlbum(r, trackCount[r], authError[r] \/ out = "auth")
          /\ UNCHANGED scrapeVars
     ELSE IF out = "more"
     THEN /\ gotItems' = [gotItems EXCEPT ![r] = TRUE]
          /\ inflight' = [inflight EXCEPT ![r] = Call("tracks", listToken[r])]
          /\ UNCHANGED <<gpc, gi, trackCount, uriAlbum, authError, gresp, gerror,
                         createCalls, scrapeVars>>
     ELSE IF out = "empty" /\ ~gotItems[r]
     THEN /\ NextAlbum(r, trackCount[r], authError[r])
          /\ UNCHANGED scrapeVars
     ELSE IF hasUrl
     THEN /\ StartScrape(r, "albumTracks", "path")
          /\ inflight' = [inflight EXCEPT ![r] = NoCall]
          /\ gpc' = [gpc EXCEPT ![r] = "scrape"]
          /\ UNCHANGED <<gi, gotItems, trackCount, uriAlbum, authError, gresp, gerror,
                         createCalls>>
     ELSE /\ inflight' = [inflight EXCEPT ![r] = Call("details", apiToken)]
          /\ gpc' = [gpc EXCEPT ![r] = "details"]
          /\ UNCHANGED <<gi, gotItems, trackCount, uriAlbum, authError, gresp, gerror,
                         createCalls, scrapeVars>>
  /\ authFailed' = [authFailed EXCEPT ![r] = @ \/ out = "auth"]
  /\ UNCHANGED <<tokenVars, reqToken, nAlbums, listToken, addToken, sent,
                 tracksAdded, addCalls, addChunks, notGen>>

\* scrapeAotyAlbumTracks returned: without rated names the selection is by
\* getTopTrackUrisByPopularity (getTracks); with names it is made at once
\* and the album contributes k identifiers
GenAfterScrape(r, k) ==
  /\ gpc[r] = "scrape"
  /\ spc[r] = "ret"
  /\ spc' = [spc EXCEPT ![r] = "none"]
  /\ browser' = [browser EXCEPT ![r] = "undef"]
  /\ sout' = [sout EXCEPT ![r] = NoOutcome]
  /\ response' = [response EXCEPT ![r] = "none"]
  /\ IF Len(sout[r].list) = 0
     THEN /\ inflight' = [inflight EXCEPT ![r] = Call("details", apiToken)]
          /\ gpc' = [gpc EXCEPT ![r] = "details"]
          /\ UNCHANGED <<gi, gotItems, trackCount, uriAlbum, authError, gresp, gerror,
                         createCalls>>
     ELSE NextAlbum(r, trackCount[r] + k, authError[r])
  /\ UNCHANGED <<tokenVars, reqToken, nAlbums, listToken, addToken, sent,
                 tracksAdded, authFailed, addCalls, addChunks, sfn, albumPath,
                 openBrowsers, notGen>>

\* getTracks answers, or fails with a 401/403 or another error (every
\* failure is caught inside getTopTrackUrisByPopularity, which then returns
\* the first tracks in album order); the album contributes k identifiers
GenAfterDetails(r, out, k) ==
  /\ gpc[r] = "details"
  /\ NextAlbum(r, trackCount[r] + k, authError[r])
  /\ authFailed' = [authFailed EXCEPT ![r] = @ \/ out = "auth"]
  /\ UNCHANGED <<tokenVars, reqToken, nAlbums, listToken, addToken, sent,
                 tracksAdded, addCalls, addChunks, scrapeVars, notGen>>

\* trackUris at the end of the loop over albums: the URI pushed k-th is
\* named k
trackUris(r) == [k \in 1..trackCount[r] |-> k]

\* a slice that starts one URI early
ChunkFromBefore(uris, i) ==
  SubSeq(uris, IF i = 0 THEN 1 ELSE i, Min(i + ADD_TRACKS_CHUNK, Len(uris)))

\* trackUris.slice(i, i + ADD_TRACKS_CHUNK)
ChunkAt(uris, i) == SubSeq(uris, i + 1, Min(i + ADD_TRACKS_CHUNK, Len(uris)))

\* createPlaylist answers: a failure ends in the handler's catch; else the
\* token is read again and the first chunk is posted
GenAfterCreate(r, ok) ==
  /\ gpc[r] = "create"
  /\ IF ok
     THEN /\ addToken' = [addToken EXCEPT ![r] = apiToken]
          /\ inflight' = [inflight EXCEPT ![r] = Call("add", apiToken)]
          /\ addCalls' = [addCalls EXCEPT ![r] = 1]
          /\ addChunks' = [addChunks EXCEPT ![r] = <<ChunkAt(trackUris(r), 0)>>]
          /\ gpc' = [gpc EXCEPT ![r] = "add"]
          /\ UNCHANGED <<gresp, gerror>>
     ELSE /\ gresp' = [gresp EXCEPT ![r] = 500]
          /\ gerror' = [gerror EXCEPT ![r] = "Failed to create playlist"]
          /\ inflight' = [inflight EXCEPT ![r] = NoCall]
          /\ gpc' = [gpc EXCEPT ![r] = "done"]
          /\ UNCHANGED <<addToken, addCalls, addChunks>>
  /\ UNCHANGED <<tokenVars, reqToken, nAlbums, gi, gotItems, listToken,
                 trackCount, uriAlbum, sent, tracksAdded, authError, authFailed,
                 createCalls, scrapeVars, notGen>>

\* an add loop that goes on to the next chunk after a failed one
GenAfterAddKeepsSending(r, ok) ==
  /\ gpc[r] = "add"
  /\ LET chunk == Len(ChunkAt(trackUris(r), sent[r]))
     IN IF sent[r] + ADD_TRACKS_CHUNK < trackCount[r]
        THEN /\ sent' = [sent EXCEPT ![r] = @ + ADD_TRACKS_CHUNK]
             /\ tracksAdded' = [tracksAdded EXCEPT ![r] =
                                  IF ok THEN @ + chunk ELSE @]
             /\ inflight' = [inflight EXCEPT ![r] = Call("add", addToken[r])]
             /\ addCalls' = [addCalls EXCEPT ![r] = @ + 1]
             /\ addChunks' = [addChunks EXCEPT ![r] =
                                Append(@, ChunkAt(trackUris(r),
                                                  sent[r] + ADD_TRACKS_CHUNK))]
             /\ gerror' = [gerror EXCEPT ![r] =
                             IF ok THEN @ ELSE "addTracksError"]
             /\ UNCHANGED <<gpc, gresp>>
        ELSE /\ tracksAdded' = [tracksAdded EXCEPT ![r] =
                                  IF ok THEN @ + chunk ELSE @]
             /\ gresp' = [gresp EXCEPT ![r] = 201]
             /\ gerror' = [gerror EXCEPT ![r] =
                             IF ok THEN @ ELSE "addTracksError"]
             /\ inflight' = [inflight EXCEPT ![r] = NoCall]
             /\ gpc' = [gpc EXCEPT ![r] = "done"]
             /\ UNCHANGED <<sent, addCalls, addChunks>>
  /\ UNCHANGED <<tokenVars, reqToken, nAlbums, gi, gotItems, listToken,
                 addToken, trackCount, uriAlbum, authError, authFailed, createCalls,
                 scrapeVars, notGen>>

\* a chunk's POST answers: a failure leaves the loop; else the next chunk
\* is posted with the same token, or the loop ends; the answer is 201
GenAfterAdd(r, ok) ==
  /\ gpc[r] = "add"
  /\ LET chunk == Len(ChunkAt(trackUris(r), sent[r]))
     IN IF ok /\ sent[r] + ADD_TRACKS_CHUNK < trackCount[r]
        THEN /\ sent' = [sent EXCEPT ![r] = @ + ADD_TRACKS_CHUNK]
             /\ tracksAdded' = [tracksAdded EXCEPT ![r] = @ + chunk]
             /\ inflight' = [inflight EXCEPT ![r] = Call("add", addToken[r])]
             /\ addCalls' = [addCalls EXCEPT ![r] = @ + 1]
             /\ addChunks' = [addChunks EXCEPT ![r] =
                                Append(@, ChunkAt(trackUris(r),
                                                  sent[r] + ADD_TRACKS_CHUNK))]
             /\ UNCHANGED <<gpc, gresp, gerror>>
        ELSE /\ tracksAdded' = [tracksAdded EXCEPT ![r] =
                                  IF ok THEN @ + chunk ELSE @]
             /\ gresp' = [gresp EXCEPT ![r] = 201]
             /\ gerror' = [gerror EXCEPT ![r] =
                             IF ok THEN "" ELSE "addTracksError"]
             /\ inflight' = [inflight EXCEPT ![r] = NoCall]
             /\ gpc' = [gpc EXCEPT ![r] = "done"]
             /\ UNCHANGED <<sent, addCalls, addChunks>>
  /\ UNCHANGED <<tokenVars, reqToken, nAlbums, gi, gotItems, listToken,
                 addToken, trackCount, uriAlbum, authError, authFailed, createCalls,
                 scrapeVars, notGen>>

\* the connection ends; the slot serves the next request
GenFinish(r) ==
  /\ gpc[r] = "done"
  /\ gpc' = [gpc EXCEPT ![r] = "idle"]
  /\ reqToken' = [reqToken EXCEPT ![r] = NoToken]
  /\ nAlbums' = [nAlbums EXCEPT ![r] = 0]
  /\ gi' = [gi EXCEPT ![r] = 0]
  /\ gotItems' = [gotItems EXCEPT ![r] = FALSE]
  /\ listToken' = [listToken EXCEPT ![r] = NoToken]
  /\ addToken' = [addToken EXCEPT ![r] = NoToken]
  /\ trackCount' = [trackCount EXCEPT ![r] = 0]
  /\ uriAlbum' = [uriAlbum EXCEPT ![r] = <<>>]
  /\ sent' = [sent EXCEPT ![r] = 0]
  /\ tracksAdded' = [tracksAdded EXCEPT ![r] = 0]
  /\ authError' = [authError EXCEPT ![r] = FALSE]
  /\ gresp' = [gresp EXCEPT ![r] = 0]
  /\ gerror' = [gerror EXCEPT ![r] = ""]
  /\ authFailed' = [authFailed EXCEPT ![r] = FALSE]
  /\ createCalls' = [createCalls EXCEPT ![r] = 0]
  /\ addCalls' = [addCalls EXCEPT ![r] = 0]
  /\ addChunks' = [addChunks EXCEPT ![r] = <<>>]
  /\ UNCHANGED <<tokenVars, inflight, scrapeVars, notGen>>

\* GET /api/me with a bearer header: spotifyApi.setAccessToken(header token)
ApiMe(tok) ==
  /\ apiToken' = tok
  /\ UNCHANGED <<spotifyAccessToken, genVars, scrapeVars, notGen>>

\* GET /api/callback after the code exchange: the granted token is stored
\* and set on spotifyApi
ApiCallback(tok) ==
  /\ spotifyAccessToken' = tok
  /\ apiToken' = tok
  /\ UNCHANGED <<genVars, scrapeVars, notGen>>

\* POST /api/create-playlist up to its first await: the header's token, or
\* else the stored one, is set on spotifyApi; with neither the answer is 401
ApiCreatePlaylist(hasAuth, tok) ==
  /\ apiToken' = IF hasAuth THEN tok
                 ELSE IF spotifyAccessToken # NoToken THEN spotifyAccessToken
                 ELSE apiToken
  /\ UNCHANGED <<spotifyAccessToken, genVars, scrapeVars, notGen>>

(***************************************************************************)
(* Track selection for one album of a playlist request: the stretch of the *)
(* album loop from the catalog's track list to trackUris.push.  A track is *)
(* [uri, name]; in a catalog every track has its own uri (and id).         *)
(***************************************************************************)
\* albumTrackItems.slice(0, 50)
DETAILS_LIMIT == 50

Track(u, nm) == [uri |-> u, name |-> nm]
\* findMatch's null
NoUri == 0

InSeq(x, q) == \E i \in DOMAIN q : q[i] = x

\* String.prototype.includes
Includes(hay, needle) ==
  \E i \in 0..(Len(hay) - Len(needle)) :
    SubSeq(hay, i + 1, i + Len(needle)) = needle

\* String.prototype.startsWith
StartsWith(hay, needle) ==
  Len(needle) <= Len(hay) /\ SubSeq(hay, 1, Len(needle)) = needle

\* the start of the run of whitespace that ends just before position j
RunStart(s, j) ==
  CHOOSE i \in 1..j : /\ \A m \in i..(j - 1) : IsSpace(s[m])
                      /\ (i = 1 \/ ~IsSpace(s[i - 1]))

\* .replace(/\s*\([^)]*\)/g, '')
RECURSIVE DropParens(_)
DropParens(s) ==
  IF ~\E j \in DOMAIN s : s[j] = "(" /\ \E k \in (j + 1)..Len(s) : s[k] = ")"
  THEN s
  ELSE LET j == CHOOSE j \in DOMAIN s :
                  s[j] = "(" /\ \A m \in 1..(j - 1) : s[m] # "("
           k == CHOOSE k \in (j + 1)..Len(s) :
                  s[k] = ")" /\ \A m \in (j + 1)..(k - 1) : s[m] # ")"
       IN SubSeq(s, 1, RunStart(s, j) - 1)
            \o DropParens(SubSeq(s, k + 1, Len(s)))

\* the rest of the text after a dash at j can be matched by \s*.*$ : the
\* dot matches no line terminator and $ only the end of the text, so every
\* line terminator after the dash has to be within the white space that
\* follows the dash at once
DashMatches(s, j) ==
  /\ s[j] = "-"
  /\ \A m \in (j + 1)..Len(s) :
       s[m] = "\n" => \A q \in (j + 1)..m : IsSpace(s[q])

\* .replace(/\s*[–—-]\s*.*$/, ''); of the three dashes the texts of the
\* model have the hyphen
DropDashSuffix(s) ==
  IF ~\E j \in DOMAIN s : DashMatches(s, j) THEN s
  ELSE LET j == CHOOSE j \in DOMAIN s :
                  DashMatches(s, j) /\ \A m \in 1..(j - 1) : ~DashMatches(s, m)
       IN SubSeq(s, 1, RunStart(s, j) - 1)

\* .replace(/\s+/g, ' ')
RECURSIVE CollapseSpaces(_)
CollapseSpaces(s) ==
  IF s = <<>> THEN <<>>
  ELSE IF IsSpace(Head(s)) THEN <<" ">> \o CollapseSpaces(TrimStart(s))
  ELSE <<Head(s)>> \o CollapseSpaces(Tail(s))

norm(s) == Trim(CollapseSpaces(DropDashSuffix(DropParens(ToLowerCase(s)))))

\* Map.prototype.set: a key already present keeps its place and gets the
\* new value
MapSet(m, key, val) ==
  IF \E i \in DOMAIN m : m[i].key = key
  THEN [m EXCEPT ![CHOOSE i \in DOMAIN m : m[i].key = key].uri = val]
  ELSE Append(m, [key |-> key, uri |-> val])

\* new Map(items.map((t) => [norm(t.name), t.uri]).filter(([k]) => k))
RECURSIVE MapOf(_, _, _)
MapOf(items, i, m) ==
  IF i > Len(items) THEN m
  ELSE LET key == norm(items[i].name)
       IN MapOf(items, i + 1,
                IF key = <<>> THEN m ELSE MapSet(m, key, items[i].uri))

byNorm(items) == MapOf(items, 1, <<>>)

\* a faulty findMatch: the first entry in insertion order that is equal to
\* the name or matches it loosely
findMatchInOrder(aotyName, spotifyNormToUri) ==
  LET n == norm(aotyName)
      m == spotifyNormToUri
      hit(i) == \/ m[i].key = n
                \/ Includes(m[i].key, n)
                \/ Includes(n, m[i].key)
  IN IF \E i \in DOMAIN m : hit(i)
     THEN m[CHOOSE i \in DOMAIN m : hit(i) /\ \A h \in 1..(i - 1) : ~hit(h)].uri
     ELSE NoUri

findMatch(aotyName, spotifyNormToUri) ==
  LET n == norm(aotyName)
      m == spotifyNormToUri
      loose(i) == \/ Includes(m[i].key, n)
                  \/ Includes(n, m[i].key)
                  \/ (Len(n) >= 4 /\ StartsWith(m[i].key, n))
  IN IF \E i \in DOMAIN m : m[i].key = n /\ m[i].uri # NoUri
     THEN m[CHOOSE i \in DOMAIN m : m[i].key = n].uri
     ELSE IF \E i \in DOMAIN m : loose(i)
     THEN m[CHOOSE i \in DOMAIN m :
              loose(i) /\ \A h \in 1..(i - 1) : ~loose(h)].uri
     ELSE NoUri

\* a faulty rating match: it does not look whether the uri is selected
\* already
RECURSIVE RatingLoopNoDedupe(_, _, _, _)
RatingLoopNoDedupe(i, rated, m, acc) ==
  IF i > Min(TRACKS_PER_ALBUM, Len(rated)) THEN acc
  ELSE LET uri == findMatch(rated[i], m)
       IN RatingLoopNoDedupe(i + 1, rated, m,
                             IF uri # NoUri THEN Append(acc, uri) ELSE acc)

\* a faulty rating match: it goes on through the rated names until
\* TRACKS_PER_ALBUM uris are selected
RECURSIVE RatingLoopUntilFull(_, _, _, _)
RatingLoopUntilFull(i, rated, m, acc) ==
  IF i > Len(rated) \/ Len(acc) >= TRACKS_PER_ALBUM THEN acc
  ELSE LET uri == findMatch(rated[i], m)
       IN RatingLoopUntilFull(i + 1, rated, m,
                              IF uri # NoUri /\ ~InSeq(uri, acc)
                              THEN Append(acc, uri) ELSE acc)

\* for (let i = 0; i < Math.min(TRACKS_PER_ALBUM, aotyOrder.length); i++):
\* the loop from its i-th round on, acc being urisToAdd
RECURSIVE RatingLoop(_, _, _, _)
RatingLoop(i, rated, m, acc) ==
  IF i > Min(TRACKS_PER_ALBUM, Len(rated)) THEN acc
  ELSE LET uri == findMatch(rated[i], m)
       IN RatingLoop(i + 1, rated, m,
                     IF uri # NoUri /\ ~InSeq(uri, acc)
                     THEN Append(acc, uri) ELSE acc)

\* a faulty padding loop: it adds nothing
PadFromNothing(i, items, acc, limit) == acc

\* for (const t of items) { if (length >= limit) break; if (t.uri &&
\* !used.has(t.uri)) push }: the loop from the i-th track on
RECURSIVE PadFrom(_, _, _, _)
PadFrom(i, items, acc, limit) ==
  IF i > Len(items) \/ Len(acc) >= limit THEN acc
  ELSE PadFrom(i + 1, items,
               IF items[i].uri # NoUri /\ ~InSeq(items[i].uri, acc)
               THEN Append(acc, items[i].uri) ELSE acc,
               limit)

\* the answer of getTracks: nothing yet, the tracks' details, or a failure.
\* pops[i] is the popularity of the catalog's i-th track; missing are the
\* positions whose entry in the answer is null
NoDetails == [st |-> "none", pops |-> <<>>, missing |-> {}]
Details(st, pops, missing) == [st |-> st, pops |-> pops, missing |-> missing]

\* tracks.filter((t) => t && t.uri).map(...): the entries of the answer for
\* the ids asked for, which are those of the first 50 tracks
RECURSIVE WithPopularity(_, _, _)
WithPopularity(items, out, i) ==
  IF i = 0 THEN <<>>
  ELSE LET rest == WithPopularity(items, out, i - 1)
       IN IF i \in out.missing THEN rest
          ELSE Append(rest, [uri |-> items[i].uri, popularity |-> out.pops[i]])

\* withPopularity.sort((a, b) => b.popularity - a.popularity).slice(0, k)
\* .map((t) => t.uri): the sort is stable, so among equals the earlier goes
\* first
RECURSIVE SortedTop(_, _)
SortedTop(entries, k) ==
  IF k = 0 \/ entries = <<>> THEN <<>>
  ELSE LET i == CHOOSE i \in DOMAIN entries :
                  /\ \A h \in DOMAIN entries :
                       entries[h].popularity <= entries[i].popularity
                  /\ \A h \in 1..(i - 1) :
                       entries[h].popularity < entries[i].popularity
           rest == [h \in 1..(Len(entries) - 1) |->
                      IF h < i THEN entries[h] ELSE entries[h + 1]]
       IN <<entries[i].uri>> \o SortedTop(rest, k - 1)

\* a faulty selection by popularity: the first tracks in album order,
\* whatever getTracks answered
TopInAlbumOrder(albumTrackItems, n, out) ==
  [i \in 1..Min(n, Len(albumTrackItems)) |-> albumTrackItems[i].uri]

\* out is how the call of getTracks ended
getTopTrackUrisByPopularity(albumTrackItems, n, out) ==
  LET take == Min(n, Len(albumTrackItems))
      asked == Min(Len(albumTrackItems), DETAILS_LIMIT)
  IN IF take = 0 THEN <<>>
     ELSE IF out.st = "throw"
     THEN [i \in 1..take |-> albumTrackItems[i].uri]
     ELSE LET uris == SortedTop(WithPopularity(albumTrackItems, out, asked), take)
          IN IF Len(uris) >= take THEN uris
             ELSE PadFrom(1, albumTrackItems, uris, take)

\* the album loop after getAllAlbumTracks returned a non-empty items: with an
\* albumUrl the rated names have been scraped; without rated names the
\* selection waits for getTracks, with them the rating match is made
SelBegin(cat, url, rated) ==
  /\ selPc = "idle"
  /\ ~url => rated = <<>>
  /\ selItems' = cat
  /\ selUrl' = url
  /\ aotyOrder' = rated
  /\ selOut' = NoDetails
  /\ selFirst' = <<>>
  /\ IF rated = <<>>
     THEN /\ urisToAdd' = <<>>
          /\ selPc' = "details"
     ELSE /\ urisToAdd' = RatingLoop(1, rated, byNorm(cat), <<>>)
          /\ selPc' = "pad"
  /\ UNCHANGED <<now, chartVars, scrapeVars, tokenVars, genVars, genresVars,
                 pureVars>>

\* urisToAdd = await getTopTrackUrisByPopularity(spotifyApi, items, 3)
SelAfterDetails(out) ==
  /\ selPc = "details"
  /\ urisToAdd' = getTopTrackUrisByPopularity(selItems, TRACKS_PER_ALBUM, out)
  /\ selOut' = out
  /\ selPc' = "pad"
  /\ UNCHANGED <<selItems, selUrl, aotyOrder, selFirst>>
  /\ UNCHANGED <<now, chartVars, scrapeVars, tokenVars, genVars, genresVars,
                 pureVars>>

\* if (urisToAdd.length < TRACKS_PER_ALBUM) { pad from items }, then the
\* album's uris go to trackUris
SelPad ==
  /\ selPc = "pad"
  /\ selFirst' = urisToAdd
  /\ urisToAdd' = PadFrom(1, selItems, urisToAdd, TRACKS_PER_ALBUM)
  /\ selPc' = "done"
  /\ UNCHANGED <<selItems, selUrl, aotyOrder, selOut>>
  /\ UNCHANGED <<now, chartVars, scrapeVars, tokenVars, genVars, genresVars,
                 pureVars>>

\* the loop goes on to the next album
SelFinish ==
  /\ selPc = "done"
  /\ selPc' = "idle"
  /\ selItems' = <<>>
  /\ selUrl' = FALSE
  /\ aotyOrder' = <<>>
  /\ selOut' = NoDetails
  /\ selFirst' = <<>>
  /\ urisToAdd' = <<>>
  /\ UNCHANGED <<now, chartVars, scrapeVars, tokenVars, genVars, genresVars,
                 pureVars>>

\* the inputs of a selection: catalogs of up to MaxTracks tracks, each with
\* its position as uri, and one longer than getTracks is asked about (it is
\* selected from by popularity only); rated names; popularities; the
\* positions getTracks answers null for
CatNames == { <<"a">>, <<"a", "b">>, <<"c">> }
RatedNames == { <<"A">>, <<"b">>, <<"z">> }
LongCatalog == [i \in 1..(DETAILS_LIMIT + 1) |-> Track(i, <<"c">>)]
Catalogs ==
  UNION { { [i \in 1..k |-> Track(i, nm[i])] : nm \in [1..k -> CatNames] } :
          k \in 1..MaxTracks }
\* rated names of an album page with more names than are looked at
FourRated == <<<<"z">>, <<"b">>, <<"z">>, <<"A">>>>
RatedLists ==
  UNION { [1..k -> RatedNames] : k \in 0..MaxRated } \cup {FourRated}
PopChoices(k) ==
  IF k <= MaxTracks THEN [1..k -> 0..MaxPop]
  ELSE { [i \in 1..k |-> IF i = k THEN MaxPop ELSE 0],
         [i \in 1..k |-> IF i \in {2, DETAILS_LIMIT} THEN MaxPop ELSE 0] }
MissingChoices(k) == { {}, {1}, 1..k }

(***************************************************************************)
(* GET /api/genres and its in-process cache.  genresCache is null ({}) or  *)
(* an array ({list}); an empty array is truthy.  The clock of the model    *)
(* starts more than the cache's lifetime after genresCacheTime's initial 0.*)
(***************************************************************************)
NeverCached == 0 - GENRES_CACHE_TTL_HOURS

NoGenres == [status |-> 0, genres |-> <<>>, at |-> 0]

\* genresCache && Date.now() - genresCacheTime < GENRES_CACHE_TTL_MS
GenresFresh(c, time, t) ==
  c # {} /\ (t - time) * HoursPerTick < GENRES_CACHE_TTL_HOURS

\* a faulty refresh: whatever was scraped replaces the cache
GenresCacheReplaced(c, genres) == {genres}

\* genresCache after a refresh returned genres
GenresCacheAfter(c, genres) ==
  IF Len(genres) > 0 THEN {genres}
  ELSE IF c # {} THEN c
  ELSE {<<>>}

\* the request arrives: answered from the cache, or fetchAotyGenres is
\* called
GenresRequest(r) ==
  /\ gnpc[r] = "idle"
  /\ spc[r] = "none"
  /\ IF GenresFresh(genresCache, genresCacheTime, now)
     THEN /\ gnresp' = [gnresp EXCEPT ![r] =
                          [status |-> 200,
                           genres |-> CHOOSE l \in genresCache : TRUE,
                           at |-> now]]
          /\ gnpc' = [gnpc EXCEPT ![r] = "done"]
          /\ UNCHANGED scrapeVars
     ELSE /\ StartScrape(r, "genres", "path")
          /\ gnpc' = [gnpc EXCEPT ![r] = "fetch"]
          /\ UNCHANGED gnresp
  /\ UNCHANGED <<genresCache, genresCacheTime>>
  /\ UNCHANGED <<now, chartVars, tokenVars, genVars, selVars, pureVars>>

\* fetchAotyGenres returned (it catches every error and returns [])
GenresAfterFetch(r) ==
  /\ gnpc[r] = "fetch"
  /\ spc[r] = "ret"
  /\ LET genres == sout[r].list
         c == GenresCacheAfter(genresCache, genres)
     IN /\ genresCache' = c
        /\ genresCacheTime' = IF Len(genres) > 0 THEN now ELSE genresCacheTime
        /\ gnresp' = [gnresp EXCEPT ![r] =
                        [status |-> 200, genres |-> CHOOSE l \in c : TRUE,
                         at |-> now]]
  /\ gnpc' = [gnpc EXCEPT ![r] = "done"]
  /\ spc' = [spc EXCEPT ![r] = "none"]
  /\ browser' = [browser EXCEPT ![r] = "undef"]
  /\ sout' = [sout EXCEPT ![r] = NoOutcome]
  /\ response' = [response EXCEPT ![r] = "none"]
  /\ UNCHANGED <<sfn, albumPath, openBrowsers>>
  /\ UNCHANGED <<now, chartVars, tokenVars, genVars, selVars, pureVars>>

\* the connection ends; the slot serves the next request
GenresFinish(r) ==
  /\ gnpc[r] = "done"
  /\ gnpc' = [gnpc EXCEPT ![r] = "idle"]
  /\ gnresp' = [gnresp EXCEPT ![r] = NoGenres]
  /\ UNCHANGED <<genresCache, genresCacheTime>>
  /\ UNCHANGED <<now, chartVars, scrapeVars, tokenVars, genVars, selVars,
                 pureVars>>

(***************************************************************************)
(* The extraction scrapeAotyAlbumTracks runs inside the album page.  A     *)
(* page is the list of its tables, a table the list of its tr rows, a row  *)
(* the list of the trimmed texts of its td cells.                          *)
(***************************************************************************)
DigitChars == <<"0", "1", "2", "3", "4", "5", "6", "7", "8", "9">>

DigitValue(c) == (CHOOSE i \in DOMAIN DigitChars : DigitChars[i] = c) - 1

\* the number of digits s starts with
RECURSIVE LeadingDigits(_)
LeadingDigits(s) ==
  IF s = <<>> \/ Head(s) \notin Digits THEN 0 ELSE 1 + LeadingDigits(Tail(s))

RECURSIVE DecimalValue(_, _)
DecimalValue(s, acc) ==
  IF s = <<>> THEN acc
  ELSE DecimalValue(Tail(s), acc * 10 + DigitValue(Head(s)))

NaN == [nan |-> TRUE, val |-> 0]

\* parseInt(s, 10): leading white space, a sign, then the digits up to the
\* first other character; NaN without a digit
parseInt(s) ==
  LET t == TrimStart(s)
      signed == t # <<>> /\ Head(t) \in {"-", "+"}
      u == IF signed THEN Tail(t) ELSE t
      n == LeadingDigits(u)
      v == DecimalValue(SubSeq(u, 1, n), 0)
  IN IF n = 0 THEN NaN
     ELSE [nan |-> FALSE, val |-> IF Head(t) = "-" THEN 0 - v ELSE v]

\* nameAndDuration.replace(/\d{1,2}:\d{2}$/, '').trim()
NameOfRow(row) ==
  LET c == row[2]
      n == Len(c)
      ends == /\ n >= 4
              /\ c[n] \in Digits /\ c[n - 1] \in Digits
              /\ c[n - 2] = ":" /\ c[n - 3] \in Digits
      from == IF n >= 5 /\ c[n - 4] \in Digits THEN n - 4 ELSE n - 3
  IN IF ends THEN Trim(SubSeq(c, 1, from - 1)) ELSE Trim(c)

\* .filter((row) => row.length >= 3)
HasThreeCells(row) == Len(row) >= 3

\* the rows that are pushed to withRating
RowIsRated(row) ==
  LET rating == parseInt(row[3])
  IN /\ ~rating.nan
     /\ rating.val >= 0
     /\ rating.val <= 100
     /\ NameOfRow(row) # <<>>

withRating(parsed) ==
  LET kept == SelectSeq(parsed, RowIsRated)
  IN [i \in DOMAIN kept |->
        [name |-> NameOfRow(kept[i]), rating |-> parseInt(kept[i][3]).val]]

\* a faulty sort: the rows stay in the order of the table
SortedAsListed(entries) == entries

\* withRating.sort((a, b) => b.rating - a.rating): the sort is stable
RECURSIVE SortedByRating(_)
SortedByRating(entries) ==
  IF entries = <<>> THEN <<>>
  ELSE LET i == CHOOSE i \in DOMAIN entries :
                  /\ \A j \in DOMAIN entries : entries[j].rating <= entries[i].rating
                  /\ \A j \in 1..(i - 1) : entries[j].rating < entries[i].rating
       IN <<entries[i]>>
            \o SortedByRating(SubSeq(entries, 1, i - 1)
                                \o SubSeq(entries, i + 1, Len(entries)))

\* for (const table of tables) { ... } return []
RECURSIVE evaluateTrackNames(_)
evaluateTrackNames(tables) ==
  IF tables = <<>> THEN <<>>
  ELSE LET parsed == SelectSeq(Head(tables), HasThreeCells)
           rated == withRating(parsed)
           sorted == SortedByRating(rated)
       IN IF Len(parsed) < 2 THEN evaluateTrackNames(Tail(tables))
          ELSE IF Len(rated) >= 2
          THEN [i \in DOMAIN sorted |-> sorted[i].name]
          ELSE evaluateTrackNames(Tail(tables))

\* the extraction applied to a page
ExtractTracks(tables) ==
  /\ fpc = "idle"
  /\ fpc' = "extract"
  /\ pageTables' = tables
  /\ trackNames' = evaluateTrackNames(tables)
  /\ UNCHANGED <<slugIn, slugOut, slugTwice, normIn, normOut, normTwice,
                 matchVars, parseVars>>
  /\ UNCHANGED <<now, chartVars, scrapeVars, tokenVars, genVars, selVars,
                 genresVars>>

\* formatGenreSlug applied to a text, and to its own result
FormatSlug(genre) ==
  /\ fpc = "idle"
  /\ fpc' = "slug"
  /\ slugIn' = genre
  /\ slugOut' = formatGenreSlug(genre)
  /\ slugTwice' = formatGenreSlug(formatGenreSlug(genre))
  /\ UNCHANGED <<pageTables, trackNames, normIn, normOut, normTwice,
                 matchVars, parseVars>>
  /\ UNCHANGED <<now, chartVars, scrapeVars, tokenVars, genVars, selVars,
                 genresVars>>

\* the texts of up to MaxLen characters over an alphabet
TextsOver(chars) == UNION { [1..k -> chars] : k \in 0..MaxLen }

\* genre texts: every short text of letters, digits, white space, hyphens
\* and other signs, and the two of the examples
SlugChars == {"A", "b", "1", " ", "\n", "-", "&"}
SynthPop == <<"S", "y", "n", "t", "h", " ", "P", "o", "p">>
RnB == <<"R", "&", "B", "!", "!">>
GenreTexts == TextsOver(SlugChars) \cup {SynthPop, RnB}

\* norm applied to a text, and to its own result
NormText(t) ==
  /\ fpc = "idle"
  /\ fpc' = "norm"
  /\ normIn' = t
  /\ normOut' = norm(t)
  /\ normTwice' = norm(norm(t))
  /\ UNCHANGED <<pageTables, trackNames, slugIn, slugOut, slugTwice,
                 matchVars, parseVars>>
  /\ UNCHANGED <<now, chartVars, scrapeVars, tokenVars, genVars, selVars,
                 genresVars>>

\* track names: every short text of letters, white space, hyphens and
\* parentheses, and the two of the example
NormChars == {"A", "b", " ", "\n", "-", "(", ")"}
FadeRemix == <<"F", "a", "d", "e", " ", "(", "f", "e", "a", "t", ".", " ", "X", ")",
               " ", "-", " ", "R", "e", "m", "i", "x">>
FADE == <<"F", "A", "D", "E">>
NormTexts == TextsOver(NormChars) \cup {FadeRemix, FADE}

(***************************************************************************)
(* The chart page and its two extractions.  A page is its rows, in         *)
(* document order, and its album links.  A row is the closest li, tr,      *)
(* [class*="row"] or div of its title elements; it has at most one         *)
(* .albumTitle and one .artistTitle, whose texts are given trimmed.  A     *)
(* link is an a[href*="/album/"], given by its text.  The entries' albumUrl *)
(* is left out.                                                            *)
(***************************************************************************)
TOP_N == 20
PageRow(hasAl, al, hasAr, ar) ==
  [hasAlbum |-> hasAl, album |-> al, hasArtist |-> hasAr, artist |-> ar]
Page(rows, links) == [rows |-> rows, links |-> links]
NoPage == Page(<<>>, <<>>)

\* ' - '
Delim == <<" ", "-", " ">>

\* String.prototype.indexOf
IndexOf(hay, needle) ==
  IF Includes(hay, needle)
  THEN CHOOSE i \in 0..(Len(hay) - Len(needle)) :
         /\ SubSeq(hay, i + 1, i + Len(needle)) = needle
         /\ \A h \in 0..(i - 1) : SubSeq(hay, h + 1, h + Len(needle)) # needle
  ELSE -1

\* querySelectorAll('.albumTitle').slice(0, TOP_N), each element given by
\* the position of its row
AlbumEls(rows) ==
  LET all == SelectSeq([i \in 1..Len(rows) |-> i], LAMBDA i : rows[i].hasAlbum)
  IN SubSeq(all, 1, Min(Len(all), TOP_N))

\* querySelectorAll('.artistTitle').slice(0, TOP_N)
ArtistEls(rows) ==
  LET all == SelectSeq([i \in 1..Len(rows) |-> i], LAMBDA i : rows[i].hasArtist)
  IN SubSeq(all, 1, Min(Len(all), TOP_N))

\* a faulty filter: it keeps every entry
KeepsAll(e) == TRUE

\* .filter(({ artist, album }) => artist || album)
NotBothEmpty(e) == e.artist # <<>> \/ e.album # <<>>

\* tier 1, with title elements: the longer list is mapped.  The closest
\* container of an .albumTitle is the element itself, for its class has
\* "album" in it, and it holds no .artistTitle, so the artist is
\* artistEls[i]; the closest container of an .artistTitle is its row, and
\* the album is the row's .albumTitle or else albumEls[i]
PwTitles(rows) ==
  LET albumEls == AlbumEls(rows)
      artistEls == ArtistEls(rows)
      albumAt(i) == IF i <= Len(albumEls) THEN rows[albumEls[i]].album ELSE <<>>
      artistAt(i) == IF i <= Len(artistEls) THEN rows[artistEls[i]].artist ELSE <<>>
      inRow(i) == LET r == rows[artistEls[i]]
                  IN IF r.hasAlbum /\ r.album # <<>> THEN r.album ELSE albumAt(i)
      mapped == IF Len(albumEls) >= Len(artistEls)
                THEN [i \in 1..Len(albumEls) |-> Entry(i, artistAt(i), albumAt(i))]
                ELSE [i \in 1..Len(artistEls) |-> Entry(i, artistAt(i), inRow(i))]
  IN SelectSeq(mapped, NotBothEmpty)

\* tier 1, without title elements: the links whose text has the delimiter,
\* the first TOP_N of them mapped
PwLinks(links) ==
  LET all == SelectSeq(links, LAMBDA t : Includes(t, Delim))
      first == SubSeq(all, 1, Min(Len(all), TOP_N))
      entry(i) == LET text == Trim(first[i])
                      idx == IndexOf(text, Delim)
                  IN Entry(i,
                           IF idx > 0 THEN Trim(SubSeq(text, 1, idx)) ELSE <<>>,
                           IF idx > 0 THEN Trim(SubSeq(text, idx + 4, Len(text)))
                           ELSE text)
  IN SelectSeq([i \in 1..Len(first) |-> entry(i)], NotBothEmpty)

\* page.evaluate((limit) => {...}, TOP_N) of scrapeAotyWithPlaywright
PwEvaluate(page) ==
  IF \E i \in DOMAIN page.rows : page.rows[i].hasAlbum \/ page.rows[i].hasArtist
  THEN PwTitles(page.rows)
  ELSE PwLinks(page.links)

\* tier 2, with title elements: for (let i = 0; i < n; i++), both texts by
\* position
ZrTitles(rows) ==
  LET albumEls == AlbumEls(rows)
      artistEls == ArtistEls(rows)
      n == IF Len(albumEls) >= Len(artistEls) THEN Len(albumEls) ELSE Len(artistEls)
      albumAt(i) == IF i <= Len(albumEls) THEN rows[albumEls[i]].album ELSE <<>>
      artistAt(i) == IF i <= Len(artistEls) THEN rows[artistEls[i]].artist ELSE <<>>
  IN SelectSeq([i \in 1..n |-> Entry(i, artistAt(i), albumAt(i))], NotBothEmpty)

\* tier 2, without title elements: .each((i, el) => ...) over every link,
\* left at i >= TOP_N; a link whose trimmed text lacks the delimiter is
\* passed over
ZrLinks(links) ==
  LET seen == Min(Len(links), TOP_N)
      kept == SelectSeq([i \in 1..seen |-> i],
                        LAMBDA i : Includes(Trim(links[i]), Delim))
      entry(i) == LET text == Trim(links[i])
                      idx == IndexOf(text, Delim)
                  IN Entry(i, Trim(SubSeq(text, 1, idx)),
                           Trim(SubSeq(text, idx + 4, Len(text))))
  IN [k \in 1..Len(kept) |-> entry(kept[k])]

\* the parsing of scrapeAotyWithZenRows, from cheerio.load(html) on
ZrParse(page) ==
  IF \E i \in DOMAIN page.rows : page.rows[i].hasAlbum \/ page.rows[i].hasArtist
  THEN ZrTitles(page.rows)
  ELSE ZrLinks(page.links)

\* both extractions applied to a page
ParsePage(page) ==
  /\ fpc = "idle"
  /\ fpc' = "parse"
  /\ chartPage' = page
  /\ pwAlbums' = PwEvaluate(page)
  /\ zrAlbums' = ZrParse(page)
  /\ UNCHANGED <<pageTables, trackNames, slugIn, slugOut, slugTwice, normIn,
                 normOut, normTwice, matchVars>>
  /\ UNCHANGED <<now, chartVars, scrapeVars, tokenVars, genVars, selVars,
                 genresVars>>

\* pages: up to MaxEls rows, each with one title element or both, the
\* texts empty or not; or up to MaxEls links, with and without delimiter;
\* and pages with more than TOP_N rows or links
TitleTexts == { <<>>, <<"p">>, <<"q">> }
PageRows ==
  { PageRow(TRUE, al, TRUE, ar) : al \in TitleTexts, ar \in TitleTexts }
    \cup { PageRow(TRUE, al, FALSE, <<>>) : al \in TitleTexts }
    \cup { PageRow(FALSE, <<>>, TRUE, ar) : ar \in TitleTexts }
LinkTexts == { <<"A", " ", "-", " ", "B">>, <<"A", "B">>,
               <<" ", "-", " ", "B">>, <<"A", " ", "-", " ">>, <<>> }
LongRows ==
  [i \in 1..(TOP_N + 1) |->
     IF i = 2 THEN PageRow(TRUE, <<>>, TRUE, <<>>)
     ELSE PageRow(TRUE, <<"p">>, TRUE, <<"q">>)]
LongLinks ==
  [i \in 1..(TOP_N + 1) |->
     IF i = 1 THEN <<"A", "B">> ELSE <<"A", " ", "-", " ", "B">>]
ChartPages ==
  UNION { { Page(rows, <<>>) : rows \in [1..k -> PageRows] } : k \in 1..MaxEls }
    \cup UNION { { Page(<<>>, links) : links \in [1..k -> LinkTexts] } :
                 k \in 0..MaxEls }
    \cup { Page(LongRows, <<>>), Page(<<>>, LongLinks) }

\* findMatch applied to a rated name and the mapping of a catalog
MatchName(name, cat) ==
  /\ fpc = "idle"
  /\ fpc' = "match"
  /\ matchName' = name
  /\ matchMap' = byNorm(cat)
  /\ matchOut' = findMatch(name, byNorm(cat))
  /\ UNCHANGED <<pageTables, trackNames, slugIn, slugOut, slugTwice, normIn,
                 normOut, normTwice, parseVars>>
  /\ UNCHANGED <<now, chartVars, scrapeVars, tokenVars, genVars, selVars,
                 genresVars>>

\* catalog names and rated names that are equal, contain one another, start
\* one another or have nothing in common; catalogs of up to MaxEntries
\* tracks, each with its position as uri
MatchCatNames == { <<"a">>, <<"a", "b">>, <<"c", "a", "b">>,
                   <<"a", "b", "c", "d", "e">>, <<"d">> }
MatchQueries == { <<"A">>, <<"b">>, <<"a", "b">>, <<"a", "b", "c", "d">>,
                  <<"z">>, <<"(", "z", ")">> }
MatchCatalogs ==
  UNION { { [i \in 1..k |-> Track(i, nm[i])] : nm \in [1..k -> MatchCatNames] } :
          k \in 1..MaxEntries }

\* the result is dropped
PureReset ==
  /\ fpc # "idle"
  /\ fpc' = "idle"
  /\ pageTables' = <<>>
  /\ trackNames' = <<>>
  /\ slugIn' = <<>>
  /\ slugOut' = <<>>
  /\ slugTwice' = <<>>
  /\ normIn' = <<>>
  /\ normOut' = <<>>
  /\ normTwice' = <<>>
  /\ matchName' = <<>>
  /\ matchMap' = <<>>
  /\ matchOut' = NoUri
  /\ chartPage' = NoPage
  /\ pwAlbums' = <<>>
  /\ zrAlbums' = <<>>
  /\ UNCHANGED <<now, chartVars, scrapeVars, tokenVars, genVars, selVars,
                 genresVars>>

\* the pages of the model: cells of each kind, rows of two or three cells,
\* tables of up to MaxRows rows, pages of one table or of two small ones
NameCells == { <<"I", " ", "1", ":", "0", "2">>, <<"V">>, <<"3", ":", "4", "5">> }
RatingCells == { <<"8", "0">>, <<"9", "5">>, <<"x">>, <<"1", "0", "1">> }
Rows ==
  { << <<"1">>, t, g >> : t \in NameCells, g \in RatingCells }
    \cup { << <<"A">>, <<"V">>, <<"9", "5">> >>,
            << <<"A">>, <<"I", " ", "1", ":", "0", "2">>, <<"8", "0">> >>,
            << <<"1">>, <<"V">> >> }
TablesOf(k) == UNION { [1..m -> Rows] : m \in 0..k }
\* the page of the example: Intro 1:02 rated 80, Void 3:45 rated 95, and a
\* row without a rating
ExamplePage ==
  << << << <<"1">>, <<"I", "n", "t", "r", "o", " ", "1", ":", "0", "2">>,
           <<"8", "0">> >>,
        << <<"2">>, <<"V", "o", "i", "d", " ", "3", ":", "4", "5">>,
           <<"9", "5">> >>,
        << <<"3">>, <<"-">>, <<"n", "o", "t", "a", "n", "u", "m", "b", "e", "r">> >> >> >>
Pages ==
  { <<t>> : t \in TablesOf(MaxRows) }
    \cup { <<t, u>> : t \in TablesOf(1), u \in TablesOf(2) }
    \cup { ExamplePage }

(***************************************************************************)
(* The scrapers called on their own.                                       *)
(***************************************************************************)
ScraperCall(p, fn, arg) ==
  /\ spc[p] = "none"
  /\ StartScrape(p, fn, arg)
  /\ UNCHANGED notScrape

ScraperReturn(p) ==
  /\ spc[p] = "ret"
  /\ spc' = [spc EXCEPT ![p] = "none"]
  /\ browser' = [browser EXCEPT ![p] = "undef"]
  /\ sout' = [sout EXCEPT ![p] = NoOutcome]
  /\ response' = [response EXCEPT ![p] = "none"]
  /\ UNCHANGED <<sfn, albumPath, openBrowsers, notScrape>>

(***************************************************************************)
(* Initial state: nothing in flight, the table empty, no token.            *)
(***************************************************************************)
InitScrape ==
  /\ spc = [p \in Reqs |-> "none"]
  /\ sfn = [p \in Reqs |-> "playwright"]
  /\ albumPath = [p \in Reqs |-> "undefined"]
  /\ response = [p \in Reqs |-> "none"]
  /\ browser = [p \in Reqs |-> "undef"]
  /\ sout = [p \in Reqs |-> NoOutcome]
  /\ openBrowsers = 0

InitChart ==
  /\ cache = <<>>
  /\ pc = [r \in Reqs |-> "idle"]
  /\ rawGenre = [r \in Reqs |-> <<>>]
  /\ cachedData = [r \in Reqs |-> {}]
  /\ cacheError = [r \in Reqs |-> "none"]
  /\ t1 = [r \in Reqs |-> NoOutcome]
  /\ zenRows = [r \in Reqs |-> NoOutcome]
  /\ gcd = [r \in Reqs |-> NoOutcome]
  /\ resp = [r \in Reqs |-> NoResp]
  /\ gcdCalls = [r \in Reqs |-> 0]
  /\ t1Calls = [r \in Reqs |-> 0]
  /\ t2Calls = [r \in Reqs |-> 0]
  /\ httpCalls = [r \in Reqs |-> 0]

InitGen ==
  /\ apiToken = NoToken
  /\ spotifyAccessToken = NoToken
  /\ gpc = [r \in Reqs |-> "idle"]
  /\ reqToken = [r \in Reqs |-> NoToken]
  /\ nAlbums = [r \in Reqs |-> 0]
  /\ gi = [r \in Reqs |-> 0]
  /\ gotItems = [r \in Reqs |-> FALSE]
  /\ listToken = [r \in Reqs |-> NoToken]
  /\ addToken = [r \in Reqs |-> NoToken]
  /\ trackCount = [r \in Reqs |-> 0]
  /\ uriAlbum = [r \in Reqs |-> <<>>]
  /\ sent = [r \in Reqs |-> 0]
  /\ tracksAdded = [r \in Reqs |-> 0]
  /\ authError = [r \in Reqs |-> FALSE]
  /\ inflight = [r \in Reqs |-> NoCall]
  /\ gresp = [r \in Reqs |-> 0]
  /\ gerror = [r \in Reqs |-> ""]
  /\ authFailed = [r \in Reqs |-> FALSE]
  /\ createCalls = [r \in Reqs |-> 0]
  /\ addCalls = [r \in Reqs |-> 0]
  /\ addChunks = [r \in Reqs |-> <<>>]

InitSel ==
  /\ selPc = "idle"
  /\ selItems = <<>>
  /\ selUrl = FALSE
  /\ aotyOrder = <<>>
  /\ selOut = NoDetails
  /\ selFirst = <<>>
  /\ urisToAdd = <<>>

InitGenres ==
  /\ genresCache = {}
  /\ genresCacheTime = NeverCached
  /\ gnpc = [r \in Reqs |-> "idle"]
  /\ gnresp = [r \in Reqs |-> NoGenres]

InitPure ==
  /\ fpc = "idle"
  /\ pageTables = <<>>
  /\ trackNames = <<>>
  /\ slugIn = <<>>
  /\ slugOut = <<>>
  /\ slugTwice = <<>>
  /\ normIn = <<>>
  /\ normOut = <<>>
  /\ normTwice = <<>>
  /\ matchName = <<>>
  /\ matchMap = <<>>
  /\ matchOut = NoUri
  /\ chartPage = NoPage
  /\ pwAlbums = <<>>
  /\ zrAlbums = <<>>

Init ==
  /\ now = 0
  /\ zenKey \in BOOLEAN
  /\ InitChart
  /\ InitScrape
  /\ InitGen
  /\ InitSel
  /\ InitGenres
  /\ InitPure

\* the same for the routes that never read the proxy's API key
InitNoKey ==
  /\ now = 0
  /\ zenKey = FALSE
  /\ InitChart
  /\ InitScrape
  /\ InitGen
  /\ InitSel
  /\ InitGenres
  /\ InitPure

(***************************************************************************)
(* Spec: concurrent chart requests for one cache key.                      *)
(***************************************************************************)
ChartSteps(slots, genres) ==
  \/ \E r \in slots, g \in genres, f \in BOOLEAN : ChartRequest(r, g, f)
  \/ \E r \in slots, ok \in BOOLEAN : Launch(r, ok)
  \/ \E r \in slots, nav \in {"ok", "404", "throw"} : Goto(r, nav)
  \/ \E r \in slots, th \in BOOLEAN, l \in ScrapedLists : Evaluate(r, th, l)
  \/ \E r \in slots : Finally(r)
  \/ \E r \in slots : GcdAfterTier1(r)
  \/ \E r \in slots, th \in BOOLEAN, l \in ScrapedLists : ZenHttp(r, th, l)
  \/ \E r \in slots : ChartAfterData(r)
  \/ \E r \in slots : ChartFinish(r)
  \/ Tick

Next == ChartSteps(Reqs, OneKeyGenres)

Spec == Init /\ [][Next]_vars

(***************************************************************************)
(* SpecKeys: chart requests one after another, for every genre text.       *)
(***************************************************************************)
NextKeys == ChartSteps({1}, RawGenres)

SpecKeys == Init /\ [][NextKeys]_vars

(***************************************************************************)
(* SpecToken: concurrent playlist requests and the other routes that set   *)
(* the token.                                                              *)
(***************************************************************************)
NextToken ==
  \/ \E r \in Reqs, a \in BOOLEAN, tok \in Tokens, n \in 0..ConcurrentAlbums :
       GenRequest(r, a, tok, n)
  \/ \E r \in Reqs, out \in {"found", "none", "auth", "error"} :
       GenAfterSearch(r, out)
  \/ \E r \in Reqs, out \in {"more", "last", "empty", "auth", "error"},
        u \in BOOLEAN : GenAfterList(r, out, u)
  \/ \E r \in Reqs, ok \in BOOLEAN : Launch(r, ok)
  \/ \E r \in Reqs, nav \in {"ok", "404", "throw"} : Goto(r, nav)
  \/ \E r \in Reqs, th \in BOOLEAN, l \in TrackNameLists : Evaluate(r, th, l)
  \/ \E r \in Reqs : Finally(r)
  \/ \E r \in Reqs, k \in {TRACKS_PER_ALBUM} : GenAfterScrape(r, k)
  \/ \E r \in Reqs, out \in {"ok", "auth", "error"}, k \in {TRACKS_PER_ALBUM} :
       GenAfterDetails(r, out, k)
  \/ \E r \in Reqs, ok \in BOOLEAN : GenAfterCreate(r, ok)
  \/ \E r \in Reqs, ok \in BOOLEAN : GenAfterAdd(r, ok)
  \/ \E r \in Reqs : GenFinish(r)
  \/ \E tok \in Tokens : ApiMe(tok)
  \/ \E tok \in Tokens : ApiCallback(tok)
  \/ \E a \in BOOLEAN, tok \in Tokens : ApiCreatePlaylist(a, tok)

SpecToken == InitNoKey /\ [][NextToken]_vars

(***************************************************************************)
(* SpecBrowser: concurrent invocations of the three scrapers.              *)
(***************************************************************************)
NextBrowser ==
  \/ \E p \in Reqs, fn \in ScrapeFns, arg \in AlbumPaths : ScraperCall(p, fn, arg)
  \/ \E p \in Reqs, ok \in BOOLEAN : Launch(p, ok)
  \/ \E p \in Reqs, nav \in {"ok", "404", "throw"} : Goto(p, nav)
  \/ \E p \in Reqs, th \in BOOLEAN :
       \E l \in PageResults(sfn[p]) : Evaluate(p, th, l)
  \/ \E p \in Reqs : Finally(p)
  \/ \E p \in Reqs : ScraperReturn(p)

SpecBrowser == InitNoKey /\ [][NextBrowser]_vars

(***************************************************************************)
(* SpecSelect: the track selection for one album, over every input.        *)
(***************************************************************************)
NextSelect ==
  \/ /\ selPc = "idle"
     /\ \E cat \in Catalogs, url \in BOOLEAN, rated \in RatedLists :
          SelBegin(cat, url, rated)
  \/ \E url \in BOOLEAN : SelBegin(LongCatalog, url, <<>>)
  \/ /\ selPc = "details"
     /\ \E pops \in PopChoices(Len(selItems)),
           miss \in MissingChoices(Len(selItems)) :
          SelAfterDetails(Details("ok", pops, miss))
  \/ SelAfterDetails(Details("throw", <<>>, {}))
  \/ SelPad
  \/ SelFinish

SpecSelect == InitNoKey /\ [][NextSelect]_vars

(***************************************************************************)
(* SpecGenres: concurrent requests for the genre directory.                *)
(***************************************************************************)
NextGenres ==
  \/ \E r \in Reqs : GenresRequest(r)
  \/ \E r \in Reqs, ok \in BOOLEAN : Launch(r, ok)
  \/ \E r \in Reqs, nav \in {"ok", "404", "throw"} : Goto(r, nav)
  \/ \E r \in Reqs, th \in BOOLEAN, l \in GenreLists : Evaluate(r, th, l)
  \/ \E r \in Reqs : Finally(r)
  \/ \E r \in Reqs : GenresAfterFetch(r)
  \/ \E r \in Reqs : GenresFinish(r)
  \/ Tick

SpecGenres == InitNoKey /\ [][NextGenres]_vars

(***************************************************************************)
(* SpecPlaylist: one playlist request at a time, with up to MaxAlbums      *)
(* albums in its body.                                                     *)
(***************************************************************************)
PlaylistSteps(sizes) ==
  \/ \E a \in BOOLEAN, tok \in {"tA"}, n \in sizes :
       GenRequest(1, a, tok, n)
  \/ \E out \in {"found", "none", "auth", "error"} : GenAfterSearch(1, out)
  \/ \E out \in {"more", "last", "empty", "auth", "error"}, u \in BOOLEAN :
       GenAfterList(1, out, u)
  \/ \E ok \in BOOLEAN : Launch(1, ok)
  \/ \E nav \in {"ok", "404", "throw"} : Goto(1, nav)
  \/ \E th \in BOOLEAN, l \in TrackNameLists : Evaluate(1, th, l)
  \/ Finally(1)
  \/ \E k \in {TRACKS_PER_ALBUM} : GenAfterScrape(1, k)
  \/ \E out \in {"ok", "auth", "error"}, k \in {TRACKS_PER_ALBUM} :
       GenAfterDetails(1, out, k)
  \/ \E ok \in BOOLEAN : GenAfterCreate(1, ok)
  \/ \E ok \in BOOLEAN : GenAfterAdd(1, ok)
  \/ GenFinish(1)

NextPlaylist == PlaylistSteps({0, 1, MaxAlbums})

SpecPlaylist == InitNoKey /\ [][NextPlaylist]_vars

(***************************************************************************)
(* SpecOrder: one playlist request at a time, its body naming up to        *)
(* MaxOrderAlbums different albums.                                        *)
(***************************************************************************)
NextOrder == PlaylistSteps(0..MaxOrderAlbums)

SpecOrder == InitNoKey /\ [][NextOrder]_vars

(***************************************************************************)
(* SpecExtract: the album page extraction, over every page.                *)
(***************************************************************************)
NextExtract ==
  \/ /\ fpc = "idle"
     /\ \E tables \in Pages : ExtractTracks(tables)
  \/ PureReset

SpecExtract == InitNoKey /\ [][NextExtract]_vars

(***************************************************************************)
(* SpecSlug: formatGenreSlug, over every genre text.                       *)
(***************************************************************************)
NextSlug ==
  \/ /\ fpc = "idle"
     /\ \E genre \in GenreTexts : FormatSlug(genre)
  \/ PureReset

SpecSlug == InitNoKey /\ [][NextSlug]_vars

(***************************************************************************)
(* SpecNorm: norm, over every track name.                                  *)
(***************************************************************************)
NextNorm ==
  \/ /\ fpc = "idle"
     /\ \E t \in NormTexts : NormText(t)
  \/ PureReset

SpecNorm == InitNoKey /\ [][NextNorm]_vars

(***************************************************************************)
(* SpecMatch: findMatch, over rated names and catalogs.                    *)
(***************************************************************************)
NextMatch ==
  \/ /\ fpc = "idle"
     /\ \E name \in MatchQueries, cat \in MatchCatalogs : MatchName(name, cat)
  \/ PureReset

SpecMatch == InitNoKey /\ [][NextMatch]_vars

(***************************************************************************)
(* SpecParse: the two extractions of the chart page, over every page.      *)
(***************************************************************************)
NextParse ==
  \/ /\ fpc = "idle"
     /\ \E page \in ChartPages : ParsePage(page)
  \/ PureReset

SpecParse == InitNoKey /\ [][NextParse]_vars

(***************************************************************************)
(* Properties.                                                             *)
(***************************************************************************)
\* the age of a cache row, in hours
AgeHours(row) == (now - row.updated_at) * HoursPerTick

\* the rows of the table under key that are less than 24 hours old
FreshRowsFor(key) ==
  {i \in DOMAIN cache : cache[i].genre = key /\ AgeHours(cache[i]) < CACHE_TTL_HOURS}

\* C1: whenever tier 1 returned a non-empty album list, tier 2 was not
\* invoked in that call of getChartData (no call, no HTTP GET, no tier 2
\* outcome) and getChartData returned exactly tier 1's list.
Thm_C1 ==
  \A r \in Reqs :
    (t1[r].st = "ret" /\ Len(t1[r].list) > 0) =>
      /\ t2Calls[r] = 0
      /\ httpCalls[r] = 0
      /\ zenRows[r] = NoOutcome
      /\ pc[r] = "gotdata"
      /\ gcd[r].st = "ret"
      /\ gcd[r].list = t1[r].list

Wit_C1 ==
  \E r \in Reqs :
    /\ pc[r] = "gotdata"
    /\ t1[r].st = "ret" /\ t1[r].list = ListB
    /\ gcd[r].list = ListB
    /\ t2Calls[r] = 0

\* C2: when tier 1 returned an empty album list and tier 2 returned a
\* non-empty one, getChartData returned tier 2's list: the same entries in
\* the same order with the same ranks.
Thm_C2 ==
  \A r \in Reqs :
    (/\ pc[r] = "gotdata"
     /\ t1[r].st = "ret" /\ t1[r].list = <<>>
     /\ zenRows[r].st = "ret" /\ Len(zenRows[r].list) > 0) =>
      /\ gcd[r].st = "ret"
      /\ gcd[r].list = zenRows[r].list

Wit_C2 ==
  \E r \in Reqs :
    /\ pc[r] = "gotdata"
    /\ t1[r].st = "ret" /\ t1[r].list = <<>>
    /\ zenRows[r].st = "ret" /\ zenRows[r].list = ListB
    /\ gcd[r].list = ListB

\* C3: getChartData never propagates a failure: neither tier 2 nor
\* getChartData ends in an exception and no chart request ends in the
\* handler's catch; if tier 1 threw, tier 2 was invoked; and if both tiers
\* yielded nothing, getChartData returned normally with an empty list.
Thm_C3 ==
  \A r \in Reqs :
    /\ zenRows[r].st # "threw"
    /\ gcd[r].st # "threw"
    /\ resp[r].status # 500
    /\ t1[r].st = "threw" => t2Calls[r] = 1
    /\ (/\ pc[r] = "gotdata"
        /\ ~(t1[r].st = "ret" /\ Len(t1[r].list) > 0)
        /\ Len(zenRows[r].list) = 0) =>
          gcd[r] = Returned(<<>>, FALSE, FALSE)

Wit_C3 ==
  \E r \in Reqs :
    /\ pc[r] = "gotdata"
    /\ t1[r].st = "threw"
    /\ t2Calls[r] = 1 /\ httpCalls[r] = 1
    /\ zenRows[r] = Returned(<<>>, FALSE, FALSE)
    /\ gcd[r] = Returned(<<>>, FALSE, FALSE)

\* C4, as amended: a chart request with a non-blank genre is answered from
\* the cache, with cached:true and the stored list unchanged and without
\* invoking getChartData, when the lookup returns a row less than 24 hours
\* old; otherwise getChartData is invoked, and that happens only when the
\* table holds no such row for the key or the lookup itself failed.
Thm_C4 ==
  [][\A r \in Reqs :
       (pc[r] = "idle" /\ pc'[r] # "idle") =>
         \/ /\ resp'[r] = [NoResp EXCEPT !.status = 400]
            /\ gcdCalls'[r] = 0
         \/ /\ pc'[r] = "done"
            /\ resp'[r].status = 200 /\ resp'[r].cached
            /\ \E i \in FreshRowsFor(resp'[r].genre) :
                 resp'[r].data = cache[i].data
            /\ gcdCalls'[r] = 0 /\ t1Calls'[r] = 0
            /\ cache' = cache
         \/ /\ pc'[r] = "tier1"
            /\ resp'[r] = NoResp
            /\ gcdCalls'[r] = 1
            /\ \/ cacheError'[r] = "OTHER"
               \/ FreshRowsFor(GenreKeyOf(rawGenre'[r])) = {}
    ]_vars

Wit_C4 ==
  \E r \in Reqs :
    /\ pc[r] = "done"
    /\ resp[r].status = 200 /\ resp[r].cached
    /\ resp[r].data = ListB
    /\ gcdCalls[r] = 0

\* C4 as stated: whenever the table holds a row for the request's key that
\* is less than 24 hours old the request is answered from the cache and
\* getChartData is not invoked; otherwise getChartData is invoked.
Orig_C4 ==
  [][\A r \in Reqs :
       (pc[r] = "idle" /\ pc'[r] # "idle" /\ resp'[r].status # 400) =>
         LET key == IF pc'[r] = "done" THEN resp'[r].genre
                    ELSE GenreKeyOf(rawGenre'[r])
         IN IF FreshRowsFor(key) # {}
            THEN /\ resp'[r].status = 200 /\ resp'[r].cached
                 /\ \E i \in FreshRowsFor(key) : resp'[r].data = cache[i].data
                 /\ gcdCalls'[r] = 0
            ELSE gcdCalls'[r] = 1
    ]_vars

\* C5 as stated: the table changes only when a request resumes with a
\* non-empty list from getChartData, and then the row under the key, if
\* one exists, becomes the new record, and otherwise the new record is
\* appended as a new row.
Orig_C5 ==
  [][/\ cache' # cache =>
          \E r \in Reqs : pc[r] = "gotdata" /\ pc'[r] = "done"
                          /\ gcd[r].st = "ret" /\ Len(gcd[r].list) > 0
     /\ \A r \in Reqs :
          (pc[r] = "gotdata" /\ pc'[r] = "done" /\ Len(gcd[r].list) > 0) =>
            LET key == GenreKeyOf(rawGenre[r])
                rec == Row(key, gcd[r].list, now)
            IN IF RowsOf(cache, key) # {}
               THEN cache' = DbUpdate(cache, rec, key)
               ELSE cache' = Append(cache, rec)
    ]_vars

\* C6: when the lookup had returned a stale row and getChartData returns an
\* empty list, the table is left exactly as it was and the answer is the
\* not-found error naming the genre; and a list is only ever served from
\* the cache (cached:true) out of a row less than 24 hours old.
Thm_C6 ==
  [][\A r \in Reqs :
       /\ (/\ pc[r] = "gotdata" /\ pc'[r] = "done"
           /\ cachedData[r] # {}
           /\ gcd[r].st = "ret" /\ Len(gcd[r].list) = 0) =>
             /\ cache' = cache
             /\ resp'[r] = [status |-> 404, genre |-> GenreKeyOf(rawGenre[r]),
                            data |-> <<>>, cached |-> FALSE, at |-> 0]
       /\ (resp'[r] # resp[r] /\ resp'[r].cached) =>
             \E i \in FreshRowsFor(resp'[r].genre) :
               resp'[r].data = cache[i].data
    ]_vars

Wit_C6 ==
  \E r \in Reqs :
    /\ pc[r] = "done"
    /\ resp[r].status = 404
    /\ \E i \in DOMAIN cache :
         /\ cache[i].genre = resp[r].genre
         /\ AgeHours(cache[i]) >= CACHE_TTL_HOURS

\* C7 as stated: the cache key is the slug of the requested genre, so the
\* table never holds two rows whose genres have the same slug.
Orig_C7 ==
  \A i, j \in DOMAIN cache :
    formatGenreSlug(cache[i].genre) = formatGenreSlug(cache[j].genre) => i = j

\* C8 as stated: the table holds at most one row per key, and once a
\* request has written its non-empty list the row under its key carries
\* exactly that list (the last writer wins).
Orig_C8 ==
  [][\A r \in Reqs :
       /\ \A i, j \in DOMAIN cache' :
            cache'[i].genre = cache'[j].genre => i = j
       /\ (pc[r] = "gotdata" /\ pc'[r] = "done" /\ Len(gcd[r].list) > 0) =>
            \A i \in RowsOf(cache', GenreKeyOf(rawGenre[r])) :
              cache'[i].data = gcd[r].list
    ]_vars

\* C9 as stated: every catalog call awaited by a /api/generate-playlist
\* request carries the token of that request's own Authorization header.
Orig_C9 ==
  \A r \in Reqs :
    inflight[r].kind # "none" => inflight[r].token = reqToken[r]

\* C10: an invocation of a scraper that has completed has no open browser:
\* if it launched one, close() was invoked on it, on every exit path; and
\* the browsers open in the process are exactly those of the invocations
\* still running, so none is left once all have completed.
Thm_C10 ==
  /\ \A p \in Reqs : spc[p] \in {"ret", "none"} => browser[p] # "open"
  /\ openBrowsers = Cardinality({p \in Reqs : browser[p] = "open"})

Wit_C10 ==
  \E p \in Reqs :
    /\ spc[p] = "ret"
    /\ sfn[p] = "playwright"
    /\ sout[p].st = "threw"
    /\ browser[p] = "closed"
    /\ openBrowsers = 0

\* C11: the identifiers selected for one album (urisToAdd) never contain
\* the same identifier twice, after the first stage (rating match or
\* selection by popularity) and after the padding from catalog order.
Thm_C11 ==
  selPc \in {"pad", "done"} =>
    \A i, j \in DOMAIN urisToAdd : urisToAdd[i] = urisToAdd[j] => i = j

Wit_C11 ==
  /\ selPc = "done"
  /\ Len(aotyOrder) = 3
  /\ aotyOrder[1] = aotyOrder[2]
  /\ Len(selFirst) = 2
  /\ Len(urisToAdd) = 3

\* C12: for an album whose catalog list has k tracks the selection ends
\* with exactly min(N, k) identifiers, N = 3, whatever the rating match
\* and the popularity lookup yielded.
Thm_C12 ==
  selPc = "done" =>
    Len(urisToAdd) = Min(TRACKS_PER_ALBUM, Len(selItems))

Wit_C12 ==
  /\ selPc = "done"
  /\ aotyOrder # <<>>
  /\ selFirst = <<>>
  /\ Len(selItems) > TRACKS_PER_ALBUM
  /\ Len(urisToAdd) = TRACKS_PER_ALBUM

\* C13 as stated: when the rated names are not empty but the rating match
\* selected fewer than N tracks and the catalog has more, the popularity
\* lookup is made to fill the remaining slots before any padding from
\* catalog order.
Orig_C13 ==
  (/\ selPc = "done"
   /\ aotyOrder # <<>>
   /\ Len(selFirst) < TRACKS_PER_ALBUM
   /\ Len(selFirst) < Len(selItems)) =>
     selOut.st # "none"

\* C14: without rated names (no albumUrl, or an album page that yields
\* none) the selection is the result of getTopTrackUrisByPopularity alone;
\* with at least N catalog tracks and an answer of getTracks for every
\* track asked about it is N tracks among the first 50, in descending
\* popularity, none of the others among the first 50 being more popular;
\* when getTracks fails it is the first N tracks in album order.
Thm_C14 ==
  (selPc = "done" /\ aotyOrder = <<>>) =>
    /\ selOut.st # "none"
    /\ urisToAdd = selFirst
    /\ (/\ Len(selItems) >= TRACKS_PER_ALBUM
        /\ selOut.st = "ok"
        /\ selOut.missing = {}) =>
          /\ Len(urisToAdd) = TRACKS_PER_ALBUM
          /\ \A i \in DOMAIN urisToAdd : urisToAdd[i] \in 1..DETAILS_LIMIT
          /\ \A i \in 1..(Len(urisToAdd) - 1) :
               selOut.pops[urisToAdd[i]] >= selOut.pops[urisToAdd[i + 1]]
          /\ \A q \in 1..Min(Len(selItems), DETAILS_LIMIT) :
               ~InSeq(q, urisToAdd) =>
                 selOut.pops[q] <= selOut.pops[urisToAdd[TRACKS_PER_ALBUM]]
    /\ (Len(selItems) >= TRACKS_PER_ALBUM /\ selOut.st = "throw") =>
          urisToAdd = [i \in 1..TRACKS_PER_ALBUM |-> selItems[i].uri]

Wit_C14 ==
  /\ selPc = "done"
  /\ selUrl
  /\ selItems = LongCatalog
  /\ selOut.st = "ok"
  /\ selOut.missing = {}
  /\ selOut.pops[2] = MaxPop
  /\ urisToAdd = <<2, DETAILS_LIMIT, 1>>

\* the two answers of POST /api/generate-playlist that report that no track
\* was resolved
NoTracksErrors == {"Token expired or invalid", "No matching tracks found"}

\* C15 as stated: a request in which some catalog call for some album
\* failed with 401 or 403 ends with the authentication failure answer (401,
\* 'Token expired or invalid'), never with another answer.
Orig_C15 ==
  \A r \in Reqs :
    (gpc[r] = "done" /\ authFailed[r]) =>
      /\ gresp[r] = 401
      /\ gerror[r] = "Token expired or invalid"

Thm_C17 ==
  \A r \in Reqs :
    /\ (gpc[r] = "done" /\ nAlbums[r] > 0) =>
         /\ gerror[r] \in NoTracksErrors <=> trackCount[r] = 0
         /\ gerror[r] \in NoTracksErrors =>
              (createCalls[r] = 0 /\ gresp[r] = (IF authError[r] THEN 401 ELSE 422))
         /\ gi[r] = nAlbums[r]
    /\ gpc[r] \in {"create", "add"} => (gi[r] = nAlbums[r] /\ trackCount[r] > 0)
    /\ createCalls[r] > 0 => trackCount[r] > 0

Wit_C17 ==
  /\ gpc[1] = "done"
  /\ nAlbums[1] = MaxAlbums
  /\ gi[1] = MaxAlbums
  /\ authFailed[1]
  /\ trackCount[1] = 0
  /\ gresp[1] = 401
  /\ createCalls[1] = 0

\* C18: a refresh of the genre directory that returns a non-empty list
\* replaces genresCache and is what the response carries; one that returns
\* an empty list leaves a stored non-empty list in place, and the response
\* carries that list; no step makes a non-empty genresCache empty or null;
\* and a response carries an empty list only while no refresh has ever
\* returned a non-empty one.
Thm_C18 ==
  [][/\ (genresCache # {} /\ genresCache # {<<>>}) =>
          (genresCache' # {} /\ genresCache' # {<<>>})
     /\ \A r \in Reqs :
          /\ (gnpc[r] = "fetch" /\ gnpc'[r] = "done") =>
               /\ Len(sout[r].list) > 0 =>
                    /\ genresCache' = {sout[r].list}
                    /\ gnresp'[r].genres = sout[r].list
               /\ (Len(sout[r].list) = 0 /\ genresCache # {}) =>
                    /\ genresCache' = genresCache
                    /\ genresCacheTime' = genresCacheTime
                    /\ gnresp'[r].genres \in genresCache
          /\ (gnpc[r] # "done" /\ gnpc'[r] = "done") =>
               /\ gnresp'[r].status = 200
               /\ gnresp'[r].genres = <<>> =>
                    (genresCache' = {<<>>} /\ genresCacheTime' = NeverCached)
    ]_vars

Wit_C18 ==
  \E r \in Reqs :
    /\ gnpc[r] = "done"
    /\ gnresp[r].status = 200
    /\ gnresp[r].genres # <<>>
    /\ genresCache = {gnresp[r].genres}
    /\ (gnresp[r].at - genresCacheTime) * HoursPerTick >= GENRES_CACHE_TTL_HOURS

\* C19 as stated: at most one call of fetchAotyGenres is in progress at any
\* time.
Orig_C19 == Cardinality({r \in Reqs : gnpc[r] = "fetch"}) <= 1

\* C20 as stated: when a chart request that missed the cache resumes with a
\* non-empty list returned by tier 1, the table then holds one row under
\* the lowercase key, carrying exactly that list and the time of the write
\* (so that a request following at once is answered from it), and the
\* response carries the same list with cached:false.
Orig_C20 ==
  [][\A r \in Reqs :
       (/\ pc[r] = "gotdata" /\ pc'[r] = "done"
        /\ t1[r].st = "ret" /\ Len(t1[r].list) > 0) =>
          LET key == Trim(ToLowerCase(rawGenre[r]))
          IN /\ resp'[r].status = 200
             /\ resp'[r].cached = FALSE
             /\ resp'[r].data = t1[r].list
             /\ Cardinality(RowsOf(cache', key)) = 1
             /\ \A i \in RowsOf(cache', key) :
                  cache'[i] = Row(key, t1[r].list, now)
    ]_vars

\* C21: a chart request whose cache lookup returned an error other than
\* PGRST116 is not failed by it: getChartData has been invoked once for it,
\* the request never ends in the handler's catch, and when getChartData
\* returns a non-empty list the answer is 200 with that list and
\* cached:false.
Thm_C21 ==
  [][\A r \in Reqs :
       /\ cacheError'[r] = "OTHER" =>
            /\ pc'[r] \in {"tier1", "zenhttp", "gotdata"}
            /\ gcdCalls'[r] = 1
            /\ cachedData'[r] = {}
       /\ (/\ cacheError[r] = "OTHER"
           /\ pc[r] = "gotdata" /\ pc'[r] = "done") =>
             /\ resp'[r].status \in {200, 404}
             /\ Len(gcd[r].list) > 0 =>
                  /\ resp'[r].status = 200
                  /\ resp'[r].data = gcd[r].list
                  /\ resp'[r].cached = FALSE
    ]_vars

Wit_C21 ==
  \E r \in Reqs :
    /\ pc[r] = "gotdata"
    /\ cacheError[r] = "OTHER"
    /\ RowsOf(cache, GenreKeyOf(rawGenre[r])) # {}
    /\ gcd[r].list = ListB

\* C22: without ZENROWS_API_KEY an invocation of scrapeAotyWithZenRows
\* returns {albums: [], success: false} at once: no HTTP GET is issued for
\* it, by any request, as long as the key is absent.
Thm_C22 ==
  [][\A r \in Reqs :
       /\ ~zenKey' => (httpCalls'[r] = 0 /\ pc'[r] # "zenhttp")
       /\ (~zenKey /\ t2Calls'[r] = t2Calls[r] + 1) =>
            /\ zenRows'[r] = Returned(<<>>, FALSE, FALSE)
            /\ httpCalls'[r] = httpCalls[r]
            /\ gcd'[r] = Returned(<<>>, FALSE, FALSE)
    ]_vars

Wit_C22 ==
  \E r \in Reqs :
    /\ ~zenKey
    /\ pc[r] = "gotdata"
    /\ t2Calls[r] = 1
    /\ httpCalls[r] = 0
    /\ zenRows[r] = Returned(<<>>, FALSE, FALSE)

\* C23: chart acquisition never retries: a request invokes getChartData
\* once, and within it tier 1 once and tier 2 at most once, only after
\* tier 1 has finished; an invocation of tier 2 issues at most one HTTP
\* GET; and the GET's answer or failure always ends tier 2 with a returned
\* value, never an exception and never another GET.
Thm_C23 ==
  [][\A r \in Reqs :
       /\ gcdCalls'[r] <= 1 /\ t1Calls'[r] = gcdCalls'[r]
       /\ t2Calls'[r] <= 1
       /\ httpCalls'[r] <= t2Calls'[r]
       /\ (t2Calls'[r] = 1 /\ pc'[r] \in {"zenhttp", "gotdata"}) =>
            t1'[r].st \in {"ret", "threw"}
       /\ pc'[r] = "tier1" => t2Calls'[r] = 0
       /\ pc[r] = "zenhttp" /\ pc'[r] = "zenhttp" => httpCalls'[r] = httpCalls[r]
       /\ pc[r] = "zenhttp" /\ pc'[r] # "zenhttp" =>
            /\ pc'[r] = "gotdata"
            /\ httpCalls'[r] = 1
            /\ zenRows'[r].st = "ret"
            /\ zenRows'[r].list = <<>> => zenRows'[r] = Returned(<<>>, FALSE, FALSE)
    ]_vars

Wit_C23 ==
  \E r \in Reqs :
    /\ zenKey
    /\ pc[r] = "gotdata"
    /\ t1[r].st = "ret"
    /\ t1Calls[r] = 1 /\ t2Calls[r] = 1 /\ httpCalls[r] = 1
    /\ zenRows[r] = Returned(<<>>, FALSE, FALSE)

\* C24: scrapeAotyAlbumTracks never ends in an exception; called with an
\* absent, empty or non-string album path it returns an empty list at
\* once, without launching a browser or navigating; and when the launch or
\* the navigation fails it goes to its teardown with an empty list to
\* return.
Thm_C24 ==
  [][\A p \in Reqs :
       sfn'[p] = "albumTracks" =>
         /\ sout'[p].st # "threw"
         /\ spc'[p] = "ret" => sout'[p].st = "ret"
         /\ (spc[p] = "none" /\ spc'[p] # "none" /\ albumPath'[p] # "path") =>
              /\ spc'[p] = "ret"
              /\ sout'[p] = Returned(<<>>, FALSE, FALSE)
              /\ browser'[p] = "undef"
              /\ openBrowsers' = openBrowsers
         /\ albumPath'[p] # "path" =>
              (spc'[p] \in {"none", "ret"} /\ browser'[p] = "undef")
         /\ (spc[p] \in {"launch", "goto"} /\ spc'[p] = "finally") =>
              sout'[p] = Returned(<<>>, FALSE, FALSE)
    ]_vars

Wit_C24 ==
  \E p \in Reqs :
    /\ sfn[p] = "albumTracks"
    /\ albumPath[p] = "path"
    /\ spc[p] = "ret"
    /\ browser[p] = "undef"
    /\ sout[p] = Returned(<<>>, FALSE, FALSE)

\* the rows of a table that have three cells or more, and among them those
\* with a rating in 0..100 and a name
CellRows(table) == SelectSeq(table, HasThreeCells)
UsableRows(table) ==
  SelectSeq(CellRows(table),
            LAMBDA row : /\ ~parseInt(row[3]).nan
                         /\ parseInt(row[3]).val \in 0..100
                         /\ NameOfRow(row) # <<>>)

\* the tables of the page with two usable rows or more
SourceTables == {t \in DOMAIN pageTables : Len(UsableRows(pageTables[t])) >= 2}

\* C25 as stated: the table the returned track names come from is one whose
\* first row of three cells or more starts with a purely numeric cell.
Orig_C25 ==
  (fpc = "extract" /\ trackNames # <<>>) =>
    \E t \in SourceTables :
      /\ \A u \in SourceTables : t <= u
      /\ Len(CellRows(pageTables[t])) >= 2
      /\ LET first == CellRows(pageTables[t])[1][1]
         IN first # <<>> /\ \A i \in DOMAIN first : first[i] \in Digits

Thm_C27 == fpc = "slug" => slugTwice = slugOut

Wit_C27 ==
  /\ fpc = "slug"
  /\ slugIn = <<" ", "A", " ", "&">>
  /\ slugOut = <<"a", "-">>
  /\ slugTwice = slugOut

\* the slug written character by character: of the lowercased text between
\* its first and its last character that is no white space, a hyphen for
\* the first character of each run of white space, each letter a-z, digit
\* and hyphen itself, nothing for any other character
RECURSIVE SlugFrom(_, _, _)
SlugFrom(t, i, last) ==
  IF i > last THEN <<>>
  ELSE (IF IsSpace(t[i])
        THEN IF IsSpace(t[i - 1]) THEN <<>> ELSE <<"-">>
        ELSE IF t[i] \in Range(LowerLetters) \cup Digits \cup {"-"}
        THEN <<t[i]>> ELSE <<>>)
         \o SlugFrom(t, i + 1, last)

\* C28: the result of formatGenreSlug has only the characters a-z, 0-9 and
\* the hyphen, and it is the lowercased, trimmed text with a hyphen for
\* each run of white space and without any other character outside that
\* set; "Synth Pop" gives "synth-pop" and "R&B!!" gives "rb".
Thm_C28 ==
  fpc = "slug" =>
    LET t == [i \in DOMAIN slugIn |-> LowerChar(slugIn[i])]
        solid == {i \in DOMAIN t : ~IsSpace(t[i])}
        first == CHOOSE i \in solid : \A j \in solid : i <= j
        last == CHOOSE i \in solid : \A j \in solid : j <= i
    IN /\ \A i \in DOMAIN slugOut :
            slugOut[i] \in Range(LowerLetters) \cup Digits \cup {"-"}
       /\ slugOut = IF solid = {} THEN <<>> ELSE SlugFrom(t, first, last)
       /\ slugIn = SynthPop =>
            slugOut = <<"s", "y", "n", "t", "h", "-", "p", "o", "p">>
       /\ slugIn = RnB => slugOut = <<"r", "b">>

Wit_C28 ==
  /\ fpc = "slug"
  /\ slugIn = RnB
  /\ slugOut = <<"r", "b">>

\* C29 as stated: norm applied to its own result gives that result again,
\* and the name with an annotation in parentheses and a suffix after a dash
\* has the norm of the bare name in capitals.
Orig_C29 ==
  fpc = "norm" =>
    /\ normTwice = normOut
    /\ normIn = FadeRemix => normOut = norm(FADE)

\* all the chunks of a list of chunks, one after the other
RECURSIVE ConcatChunks(_)
ConcatChunks(chunks) ==
  IF chunks = <<>> THEN <<>>
  ELSE Head(chunks) \o ConcatChunks(Tail(chunks))

Orig_C31 ==
  (selPc \in {"pad", "done"} /\ aotyOrder # <<>>) =>
    LET m == byNorm(selItems)
    IN \A e \in DOMAIN m :
         \E i \in DOMAIN selItems :
           /\ norm(selItems[i].name) = m[e].key
           /\ \A h \in 1..(i - 1) : norm(selItems[h].name) # m[e].key
           /\ m[e].uri = selItems[i].uri

\* C32: the rating match looks at the first N (3) rated names only, in
\* rating order: every identifier it selects is the match of one of these
\* names, every match of one of them is selected, and the identifiers are in
\* the order of the names that matched them first; a name without a match
\* is not replaced by a later name. The album's selection is these
\* identifiers followed by the padding, which is in catalog order.
Thm_C32 ==
  (selPc = "done" /\ aotyOrder # <<>>) =>
    LET m == byNorm(selItems)
        looked == 1..(IF Len(aotyOrder) < 3 THEN Len(aotyOrder) ELSE 3)
        matchOf(i) == findMatch(aotyOrder[i], m)
        firstFor(u) == CHOOSE i \in looked :
                         matchOf(i) = u /\ \A h \in 1..(i - 1) : matchOf(h) # u
        nFirst == Len(selFirst)
    IN /\ \A p \in DOMAIN selFirst : \E i \in looked : matchOf(i) = selFirst[p]
       /\ \A i \in looked :
            matchOf(i) # NoUri => \E p \in DOMAIN selFirst : selFirst[p] = matchOf(i)
       /\ \A p, q \in DOMAIN selFirst :
            p < q => firstFor(selFirst[p]) < firstFor(selFirst[q])
       /\ nFirst <= Len(urisToAdd)
       /\ \A p \in DOMAIN selFirst : urisToAdd[p] = selFirst[p]
       /\ \A p \in (nFirst + 1)..Len(urisToAdd) :
            /\ \A q \in DOMAIN selFirst : selFirst[q] # urisToAdd[p]
            /\ \A q \in (p + 1)..Len(urisToAdd) :
                 \E a, b \in DOMAIN selItems :
                   /\ a < b
                   /\ selItems[a].uri = urisToAdd[p]
                   /\ selItems[b].uri = urisToAdd[q]

\* of four rated names the second matches track 2; the fourth, which would
\* match track 3, is not looked at, and tracks 1 and 3 are the padding
Wit_C32 ==
  /\ selPc = "done"
  /\ aotyOrder = FourRated
  /\ Len(selItems) = 4
  /\ selItems[3].name = <<"a">>
  /\ selFirst = <<2>>
  /\ urisToAdd = <<2, 1, 3>>

\* C33: findMatch returns the identifier of the entry whose normalized name
\* equals the normalized query, whatever entries were inserted before it;
\* without such an entry, that of the first entry in insertion order such
\* that one of the two normalized strings contains the other; without such
\* an entry, that of the first entry that starts with the query if the
\* query has 4 characters or more; otherwise nothing.
Thm_C33 ==
  fpc = "match" =>
    LET n == norm(matchName)
        m == matchMap
        equal(i) == m[i].key = n
        contains(i) == Includes(m[i].key, n) \/ Includes(n, m[i].key)
        starts(i) == Len(n) >= 4 /\ StartsWith(m[i].key, n)
        first(P(_)) == CHOOSE i \in DOMAIN m : P(i) /\ \A h \in 1..(i - 1) : ~P(h)
    IN IF \E i \in DOMAIN m : equal(i)
       THEN matchOut = m[first(equal)].uri
       ELSE IF \E i \in DOMAIN m : contains(i)
       THEN matchOut = m[first(contains)].uri
       ELSE IF \E i \in DOMAIN m : starts(i)
       THEN matchOut = m[first(starts)].uri
       ELSE matchOut = NoUri

\* the name 'A' is given the second track, named 'a', although the first
\* track's name 'ab' contains it
Wit_C33 ==
  /\ fpc = "match"
  /\ matchName = <<"A">>
  /\ Len(matchMap) = 2
  /\ matchMap[1].key = <<"a", "b">>
  /\ matchMap[2].key = <<"a">>
  /\ matchOut = matchMap[2].uri

\* C34 as stated: on the same page, with title elements in any numbers or
\* with album links only, tier 2's parsing yields the album list of tier
\* 1's extraction: the same length, ranks and pairs of artist and album.
Orig_C34 ==
  fpc = "parse" => zrAlbums = pwAlbums

\* C35: an album list of either tier has at most 20 entries, none with both
\* artist and album empty, and ranks that are integers of 1..20, strictly
\* increasing.
Thm_C35 ==
  fpc = "parse" =>
    \A l \in {pwAlbums, zrAlbums} :
      /\ Len(l) <= 20
      /\ \A k \in DOMAIN l :
           /\ ~(l[k].artist = <<>> /\ l[k].album = <<>>)
           /\ l[k].rank \in 1..20
      /\ \A k \in 1..(Len(l) - 1) : l[k].rank < l[k + 1].rank

\* a page of 21 rows, the second with empty titles: both tiers yield 19
\* entries, the last of rank 20
Wit_C35 ==
  /\ fpc = "parse"
  /\ Len(chartPage.rows) = 21
  /\ Len(pwAlbums) = 19 /\ pwAlbums[19].rank = 20
  /\ Len(zrAlbums) = 19 /\ zrAlbums[19].rank = 20

\* C36 as stated: in an album list of either tier the k-th entry has rank
\* k, also when elements of the page were dropped.
Orig_C36 ==
  fpc = "parse" =>
    \A l \in {pwAlbums, zrAlbums} :
      \A k \in DOMAIN l : l[k].rank = k

\* C37: when the navigation of tier 1 is answered with 404, tier 1 returns
\* no albums, success false and notFound true without an extraction, the
\* browser is closed when it returns, and getChartData goes on to tier 2.
Thm_C37 ==
  [][\A r \in Reqs :
       (pc'[r] \in {"tier1", "zenhttp", "gotdata"} /\ response'[r] = "404") =>
         /\ spc'[r] # "evaluate"
         /\ spc'[r] \in {"finally", "ret"} =>
              sout'[r] = [st |-> "ret", list |-> <<>>, success |-> FALSE,
                          notFound |-> TRUE]
         /\ spc'[r] = "ret" => browser'[r] = "closed"
         /\ (pc[r] = "tier1" /\ pc'[r] # "tier1") =>
              /\ t2Calls'[r] = t2Calls[r] + 1
              /\ t1'[r].notFound /\ ~t1'[r].success
         /\ pc'[r] # "tier1" => t2Calls'[r] = 1]_vars

\* after tier 1's 404, the request of tier 2 is in flight
Wit_C37 ==
  /\ pc[1] = "zenhttp"
  /\ response[1] = "404"
  /\ t1[1].notFound /\ t1[1].list = <<>>
  /\ t2Calls[1] = 1 /\ httpCalls[1] = 1
  /\ openBrowsers = 0

\* C38: no step of a chart request removes a row of the cache or changes a
\* row's key; a request answered from the cache, with 400 or with 404
\* leaves the table as it is; a step that changes the table is the write
\* of one request, and it changes or adds one row, that of the request's
\* own key.
Thm_C38 ==
  [][/\ Len(cache') >= Len(cache)
     /\ \A i \in DOMAIN cache : cache'[i].genre = cache[i].genre
     /\ \A r \in Reqs :
          (/\ pc[r] # "done" /\ pc'[r] = "done"
           /\ (resp'[r].status \in {400, 404} \/ resp'[r].cached)) =>
            cache' = cache
     /\ cache' # cache =>
          \E r \in Reqs :
            /\ pc[r] = "gotdata" /\ pc'[r] = "done"
            /\ LET written == {i \in DOMAIN cache' :
                                 i \notin DOMAIN cache \/ cache'[i] # cache[i]}
               IN /\ Cardinality(written) = 1
                  /\ \A i \in written :
                       cache'[i].genre = Trim(ToLowerCase(rawGenre[r]))]_vars

\* two keys have a row; the stale row of the first was written again, the
\* row of the second is as it was
Wit_C38 ==
  /\ Len(cache) = 2
  /\ cache[1].genre # cache[2].genre
  /\ cache[1].updated_at = MaxNow
  /\ cache[2].updated_at = 0
  /\ pc[1] = "done" /\ resp[1].status = 200 /\ ~resp[1].cached

\* C39: trackUris keeps the order of the body's albums: an entry of an
\* earlier album is before every entry of a later album; entries are added
\* at the end, and they are of the album the loop is at; an album whose
\* search or track listing yields nothing adds no entry.
Thm_C39 ==
  [][\A r \in Reqs :
       LET was == uriAlbum[r]
           is == uriAlbum'[r]
       IN gpc'[r] # "idle" =>
            /\ Len(is) = trackCount'[r]
            /\ \A p, q \in DOMAIN is : p < q => is[p] <= is[q]
            /\ Len(was) <= Len(is)
            /\ \A p \in DOMAIN was : is[p] = was[p]
            /\ \A p \in (Len(was) + 1)..Len(is) : is[p] = gi[r]
            /\ (/\ gpc[r] \in {"search", "list"}
                /\ (gi'[r] # gi[r] \/ gpc'[r] \notin {"search", "list"})
                /\ gpc'[r] \notin {"scrape", "details"}) => is = was]_vars

\* of three albums the first and the third contributed their tracks, the
\* second resolved to nothing
Wit_C39 ==
  /\ gpc[1] = "create"
  /\ nAlbums[1] = 3
  /\ uriAlbum[1] = <<1, 1, 1, 3, 3, 3>>

=============================================================================
